---- MODULE Spec2Model ----
(***************************************************************************)
(* A model of the ducktracker location-sharing broker: the in-memory state *)
(* engine (src/src/state.rs), its HTTP handlers (src/src/handlers.rs), the  *)
(* update filter (src/src/models.rs) and the persistence of session        *)
(* metadata (src/src/db.rs, src/src/db_models.rs).                          *)
(*                                                                         *)
(* Time is counted in ticks of one update interval fraction; an Option<T>  *)
(* is the empty set (None) or a singleton (Some); a HashMap is a function  *)
(* whose DOMAIN is the key set; a BinaryHeap<Reverse<..>> is a bag with    *)
(* its least element on top.                                               *)
(***************************************************************************)
EXTENDS Bags, FiniteSets, Integers, Sequences, TLC

\* ------------------------------------------------------------------ bounds
MaxOps == 5         \* steps (requests, worker rounds, ticks, restarts) of one run
MaxLagOps == 14     \* steps of a run in which a subscriber falls behind
MaxLagTime == 2     \* ticks of such a run
MaxSnapOps == 6     \* steps of a run with a subscription that is read to its end
MaxSnapTime == 2    \* ticks of such a run
MaxSetSize == 3     \* capacities of a BoundedSet taken by itself
MaxSetOps == 5      \* inserts into it
MaxTokOps == 6      \* steps of a run with logins
MaxAuthOps == 4     \* steps of a run with refused requests
MaxAutoOps == 8     \* steps of a run with a subscriber to every public tag
MaxAutoIds == 1     \* sessions created in such a run
MaxBeatOps == 4     \* steps within which the sessions of a run with heartbeats change
MaxBeatTime == 2    \* heartbeats of such a run
MaxAgeOps == 4      \* steps within which sessions are created and fed in a run with ageing points
MaxAgeTime == 3     \* ticks of such a run
MaxGlobalPoints == 3 \* values of --max-points, from 0
MaxAskedPoints == 4 \* values of --default-points and of the points: option, from 0
MaxPointsOps == 2   \* sessions created under one such configuration
MaxShareFields == 2 \* fields of a share id
MaxCoord == 17      \* largest coordinate of a post, in units
MaxExpiryOps == 5   \* steps of a run with the session-expiry worker
MaxWakeOps == 7     \* steps of a run with the worker between lock and select
MaxPrivOps == 6     \* steps of a run with a tag that is public in one session, private in another
MaxPrivIds == 2     \* sessions created in such a run
MaxLiveIds == 1     \* sessions created in a run that is followed to its end
MaxLiveTime == 2    \* ticks of such a run
MaxLiveRestarts == 1 \* restarts of such a run

\* ------------------------------------------------------- configuration
\* --default-tag; State::new registers it as a public tag
default_tag == "duck"
\* MAX_TOKENS (100000), scaled down
MAX_TOKENS == 2
\* --max-points and --default-points, scaled down
cfg_max_points == 2
cfg_default_points == 2
\* --default-expire-duration: not given
cfg_default_max_point_age == {}
\* tokio::sync::broadcast::channel(10)
ChannelCapacity == 10
\* --update-interval, in ticks: the heartbeat period and the coalescing window
update_interval == 1
\* the significand of an f64 (53 bits), scaled down
SignificandBits == 3
\* the sleep of an expiry worker whose heap is empty (3600 s), scaled down
SleepSentinel == 4

VARIABLES
    now,                 \* the wall clock (Utc::now, SystemTime::now)
    sessions,            \* State.sessions: SessionId -> Session
    session_expirations, \* State.session_expirations
    data_expirations,    \* State.data_expirations
    public_tags,         \* State.public_tags: Tag -> reference count
    next_fetch_id,       \* State.next_fetch_id
    db,                  \* the sessions table: session_id -> DbSession
    db_tasks,            \* spawned insert/delete tasks that have not run yet
    ids_used,            \* how many session ids utils::generate_id has handed out
    restarts,            \* how many times the process was restarted
    tokens,              \* State.tokens: a BoundedSet
    inserted,            \* the values BoundedSet::insert was called with, in order
    last,                \* the last operation and its outcome
    sent,                \* the (UpdateContext, Update) pairs the last step sent on updates_tx
    accepted,            \* per live session: the points add_location accepted, in order
    aged,                \* live sessions that lost a point to expire_data
    restored,            \* fetch ids of the sessions load_state restored
    issued,              \* fetch ids add_session issued in this process, in order
    expire_count,        \* per fetch id: ExpireFetch updates sent by this process
    sub,                 \* the one /api/stream connection: receiver, filter and coalescer
    fed,                 \* what the filter stage passed on to the coalescer, in order
    out,                 \* what the coalescer yielded to the client, in order
    worker,              \* where remove_expired_sessions_task is in its loop
    ops                  \* steps taken so far

engine_vars == << now, sessions, session_expirations, data_expirations, public_tags,
                  next_fetch_id, db, db_tasks, ids_used, restarts, tokens, inserted,
                  last, sent, accepted, aged, restored, issued, expire_count >>

sub_vars == << sub, fed, out >>

vars == << engine_vars, sub_vars, worker, ops >>

\* ------------------------------------------------------------- helpers
Some(x) == {x}
None == {}
TheValue(opt) == CHOOSE x \in opt : TRUE

Range(seq) == {seq[i] : i \in 1 .. Len(seq)}

Min(a, b) == IF a < b THEN a ELSE b
Max(a, b) == IF a > b THEN a ELSE b

Remove(f, k) == [x \in (DOMAIN f) \ {k} |-> f[x]]
Put(f, k, v) == [x \in (DOMAIN f) \cup {k} |-> IF x = k THEN v ELSE f[x]]

\* TagsAux::as_tags / From<TagsAux> for Tags
as_tags(tags_aux) == {t.name : t \in tags_aux}
\* TagsAux::public_tags
tags_public(tags_aux) == {t.name : t \in {u \in tags_aux : u.visibility = "Public"}}

Pub(n) == [name |-> n, visibility |-> "Public"]
Priv(n) == [name |-> n, visibility |-> "Private"]

\* ---------------------------------------------------------- the heaps
\* Reverse<(DateTime, SessionId)>: ordered by instant, then by session id
EntryLeq(e, f) == e[1] < f[1] \/ (e[1] = f[1] /\ e[2] <= f[2])
HeapPeek(h) == CHOOSE e \in BagToSet(h) : \A f \in BagToSet(h) : EntryLeq(e, f)
HeapPop(h) == h (-) SetToBag({HeapPeek(h)})
HeapPush(h, e) == h (+) SetToBag({e})
HeapEmpty(h) == BagToSet(h) = {}

\* ------------------------------------------------------------ BoundedSet
\* BoundedSet::new
BoundedSet(max_size) ==
    [set |-> {}, insertion_order |-> << >>, max_size |-> max_size, ring_index |-> 0]

\* an insert that makes a reinserted element the newest
insert_refreshing(self, value) ==
    LET order == IF value \in self.set
                 THEN SubSeq(self.insertion_order, self.ring_index + 1,
                             Len(self.insertion_order))
                      \o SubSeq(self.insertion_order, 1, self.ring_index)
                 ELSE self.insertion_order
        aged_order == SelectSeq(order, LAMBDA x : x # value)
    IN IF value \in self.set
       THEN [self EXCEPT !.insertion_order = Append(aged_order, value),
                         !.ring_index = 0]
       ELSE IF Len(self.insertion_order) = self.max_size
       THEN [self EXCEPT
               !.set = (@ \cup {value}) \ {self.insertion_order[self.ring_index + 1]},
               !.insertion_order[self.ring_index + 1] = value,
               !.ring_index = (@ + 1) % self.max_size]
       ELSE [self EXCEPT !.set = @ \cup {value}, !.insertion_order = Append(@, value)]

\* an insert whose ring index stays where it is
insert_fixed_slot(self, value) ==
    IF value \in self.set THEN self
    ELSE IF Len(self.insertion_order) = self.max_size
    THEN [self EXCEPT
            !.set = (@ \cup {value}) \ {self.insertion_order[self.ring_index + 1]},
            !.insertion_order[self.ring_index + 1] = value]
    ELSE [self EXCEPT !.set = @ \cup {value}, !.insertion_order = Append(@, value)]

\* BoundedSet::insert (ring_index counts from 0, insertion_order from 1)
insert(self, value) ==
    IF value \in self.set THEN self
    ELSE IF Len(self.insertion_order) = self.max_size
    THEN [self EXCEPT
            !.set = (@ \cup {value}) \ {self.insertion_order[self.ring_index + 1]},
            !.insertion_order[self.ring_index + 1] = value,
            !.ring_index = (@ + 1) % self.max_size]
    ELSE [self EXCEPT !.set = @ \cup {value}, !.insertion_order = Append(@, value)]

\* BoundedSet::contains
contains(self, value) == value \in self.set

\* --------------------------------------------------- public tag counts
\* a remove_public_tag that keeps a tag whose count reached zero
remove_public_tag_keeping_zero(pt, tag) ==
    IF tag \in DOMAIN pt THEN [pt EXCEPT ![tag] = @ - 1] ELSE pt

add_public_tag(pt, tag) ==
    IF tag \in DOMAIN pt THEN [pt EXCEPT ![tag] = @ + 1] ELSE Put(pt, tag, 1)

remove_public_tag(pt, tag) ==
    IF tag \in DOMAIN pt
    THEN IF pt[tag] - 1 = 0 THEN Remove(pt, tag) ELSE [pt EXCEPT ![tag] = @ - 1]
    ELSE pt

RECURSIVE AddTags(_, _)
AddTags(pt, tags) ==
    IF tags = {} THEN pt
    ELSE LET t == CHOOSE x \in tags : TRUE
         IN AddTags(add_public_tag(pt, t), tags \ {t})

RECURSIVE RemoveTags(_, _)
RemoveTags(pt, tags) ==
    IF tags = {} THEN pt
    ELSE LET t == CHOOSE x \in tags : TRUE
         IN RemoveTags(remove_public_tag(pt, t), tags \ {t})

add_public_tags_for_session(pt, session) == AddTags(pt, tags_public(session.tags))
remove_public_tags_for_session(pt, session) == RemoveTags(pt, tags_public(session.tags))

\* ------------------------------------------------------------ updates
Meta(t, i) == [server_time |-> t, interval |-> i]
Context(tags, hb) == [tags |-> tags, is_heartbeat |-> hb]
Msg(context, meta, changes) == [context |-> context, meta |-> meta, changes |-> changes]

Reset == [kind |-> "Reset"]
AddFetch(fetches, public) == [kind |-> "AddFetch", fetches |-> fetches, public |-> public]
Add(points) == [kind |-> "Add", points |-> points]
ExpireFetch(fetch_id) == [kind |-> "ExpireFetch", fetch_id |-> fetch_id]

Fetch(tags, max_points, max_point_age) ==
    [tags |-> tags, max_points |-> max_points, max_point_age |-> max_point_age]

\* Updates::send_update: the sender never blocks and never fails the caller
send_update(ch, context, update_meta, changes) == Append(ch, Msg(context, update_meta, changes))

\* --------------------------------------------- the receiving side
\* no /api/stream connection
NoSubscriber ==
    [active |-> FALSE, auto_subscribe |-> FALSE, subscribed_tags |-> {},
     first_stream |-> {}, rx |-> << >>, lagged |-> 0, lag_errors |-> 0,
     t_prev |-> {}, accum |-> {}, first |-> TRUE]

\* a receiver that starts after the updates sent since the subscription
Deliver_to_nobody(s, msgs) == s

\* broadcast::Receiver: the unread messages; when the ring is full the oldest unread
\* message is overwritten and the receiver is owed a Lagged error
RECURSIVE Deliver(_, _)
Deliver(s, msgs) ==
    IF ~s.active \/ msgs = << >> THEN s
    ELSE Deliver(IF Len(s.rx) = ChannelCapacity
                 THEN [s EXCEPT !.rx = Append(Tail(@), Head(msgs)), !.lagged = @ + 1]
                 ELSE [s EXCEPT !.rx = Append(@, Head(msgs))],
                 Tail(msgs))

\* From<(UpdateContext, Update)> for UpdateWithContext
UpdateWithContext(context, update) ==
    [meta |-> update.meta,
     updates |-> [i \in 1 .. Len(update.changes) |->
                     [change |-> update.changes[i], context |-> context]]]

\* UpdateWithContext::ingest
ingest(self, other) == [self EXCEPT !.updates = @ \o other.updates]

\* a filter that lets every change through
UpdateChange_filter_map_nothing(change, filter_tags, update_context) == Some(change)

\* a filter that keeps the tags of the fetches it lets through
UpdateChange_filter_map_whole_tags(change, filter_tags, update_context) ==
    CASE change.kind = "AddFetch" ->
            Some(AddFetch([f \in {g \in DOMAIN change.fetches :
                                     change.fetches[g].tags \cap filter_tags # {}} |->
                              change.fetches[f]],
                          change.public))
      [] change.kind = "Add" ->
            Some(Add([f \in {g \in DOMAIN change.points :
                                update_context.tags \cap filter_tags # {}} |->
                         change.points[f]]))
      [] change.kind = "ExpireFetch" ->
            IF update_context.tags \cap filter_tags # {} THEN Some(change) ELSE None
      [] OTHER -> Some(change)

\* UpdateChange::filter_map
UpdateChange_filter_map(change, filter_tags, update_context) ==
    CASE change.kind = "Reset" -> Some(change)
      [] change.kind = "AddFetch" ->
            LET kept == {f \in DOMAIN change.fetches :
                            change.fetches[f].tags \cap filter_tags # {}}
            IN Some(AddFetch([f \in kept |->
                                [change.fetches[f] EXCEPT !.tags = @ \cap filter_tags]],
                             change.public))
      [] change.kind = "Add" ->
            Some(Add([f \in {g \in DOMAIN change.points :
                                update_context.tags \cap filter_tags # {}} |->
                         change.points[f]]))
      [] change.kind = "ExpireFetch" ->
            IF update_context.tags \cap filter_tags # {} THEN Some(change) ELSE None

RECURSIVE FilterChanges(_, _, _)
FilterChanges(changes, filter_tags, update_context) ==
    IF changes = << >> THEN << >>
    ELSE LET c == UpdateChange_filter_map(Head(changes), filter_tags, update_context)
         IN (IF c = None THEN << >> ELSE << TheValue(c) >>)
            \o FilterChanges(Tail(changes), filter_tags, update_context)

\* an Update::filter_map that drops every update left without a change
Update_filter_map_dropping_empty(update, filter_tags, update_context) ==
    LET changes == FilterChanges(update.changes, filter_tags, update_context)
    IN IF changes # << >>
       THEN Some([update EXCEPT !.changes = changes])
       ELSE None

\* Update::filter_map
Update_filter_map(update, filter_tags, update_context) ==
    LET changes == FilterChanges(update.changes, filter_tags, update_context)
    IN IF changes # << >> \/ update_context.is_heartbeat
       THEN Some([update EXCEPT !.changes = changes])
       ELSE None

\* an update_subscribed_tags that merges nothing
update_subscribed_tags_merging_nothing(update, subscribed_tags) == subscribed_tags

\* Updates::update_subscribed_tags (Tags::merge)
update_subscribed_tags(update, subscribed_tags) ==
    subscribed_tags \cup
    UNION {update.changes[i].public :
              i \in {j \in 1 .. Len(update.changes) : update.changes[j].kind = "AddFetch"}}

\* initial_update without the test of the session's tags against the subscriber's
initial_update_of_all(tags, ss, pt, t) ==
    LET ids == {ss[x].fetch_id : x \in DOMAIN ss}
        owner(f) == ss[CHOOSE x \in DOMAIN ss : ss[x].fetch_id = f]
        fetches == [f \in ids |-> Fetch(as_tags(owner(f).tags) \cap tags,
                                        owner(f).max_points, owner(f).max_point_age)]
        points == [f \in ids |-> owner(f).locations]
    IN Msg(Context(tags, FALSE), Meta(t, 0),
           << Reset, AddFetch(fetches, DOMAIN pt), Add(points) >>)

\* Updates::initial_update
initial_update(tags, ss, pt, t) ==
    LET matching == {x \in DOMAIN ss : as_tags(ss[x].tags) \cap tags # {}}
        ids == {ss[x].fetch_id : x \in matching}
        owner(f) == ss[CHOOSE x \in matching : ss[x].fetch_id = f]
        fetches == [f \in ids |-> Fetch(as_tags(owner(f).tags) \cap tags,
                                        owner(f).max_points, owner(f).max_point_age)]
        points == [f \in ids |-> owner(f).locations]
    IN Msg(Context(tags, FALSE), Meta(t, 0),
           << Reset, AddFetch(fetches, DOMAIN pt), Add(points) >>)

\* the closure of Updates::updates on one item of the broadcast stream: the
\* subscribed tags afterwards, and the item passed on (None: nothing is)
filter_stage(subscribed_tags, auto_subscribe, x) ==
    IF x.ok
    THEN LET tags == IF auto_subscribe
                     THEN update_subscribed_tags(x.msg, subscribed_tags)
                     ELSE subscribed_tags
             shared_context == [x.msg.context EXCEPT !.tags = @ \cap tags]
             update == Update_filter_map(x.msg, tags, x.msg.context)
         IN [subscribed_tags |-> tags,
             item |-> IF update = None THEN None
                      ELSE Some([ok |-> TRUE,
                                 event |-> UpdateWithContext(shared_context,
                                                             TheValue(update))])]
    ELSE [subscribed_tags |-> subscribed_tags, item |-> None]

\* a coalesce_stream that, after its first event, accumulates and never flushes
coalesce_stream_never_flushing(c, x, t) ==
    IF x.ok
    THEN IF c.first
         THEN [t_prev |-> Some(x.event.meta.server_time), accum |-> Some(x.event),
               first |-> FALSE, yield |-> << x >>]
         ELSE [t_prev |-> c.t_prev,
               accum |-> IF c.accum = None THEN Some(x.event)
                         ELSE Some(ingest(TheValue(c.accum), x.event)),
               first |-> FALSE, yield |-> << >>]
    ELSE [t_prev |-> c.t_prev, accum |-> c.accum, first |-> c.first, yield |-> << x >>]

\* one turn of the loop of handlers::coalesce_stream on the item x at wall time t:
\* the loop variables afterwards and what the turn yields
coalesce_stream(c, x, t) ==
    IF x.ok
    THEN LET ok_event == x.event
             do_accumulate == IF c.t_prev # None
                              THEN ok_event.meta.server_time - TheValue(c.t_prev)
                                      < update_interval
                              ELSE TRUE
             accum == IF c.first THEN Some(ok_event) ELSE c.accum
         IN IF ~c.first /\ do_accumulate
            THEN IF accum = None
                 THEN [t_prev |-> Some(ok_event.meta.server_time), accum |-> Some(ok_event),
                       first |-> FALSE, yield |-> << >>]
                 ELSE [t_prev |-> c.t_prev, accum |-> Some(ingest(TheValue(accum), ok_event)),
                       first |-> FALSE, yield |-> << >>]
            ELSE [t_prev |-> Some(ok_event.meta.server_time), accum |-> Some(ok_event),
                  first |-> FALSE,
                  yield |-> IF accum # None
                            THEN << [ok |-> TRUE,
                                     event |-> [TheValue(accum) EXCEPT !.meta.server_time = t]] >>
                            ELSE << >>]
    ELSE IF c.accum # None
         THEN [t_prev |-> None, accum |-> None, first |-> c.first,
               yield |-> << [ok |-> TRUE,
                             event |-> [TheValue(c.accum) EXCEPT !.meta.server_time = t]],
                            x >>]
         ELSE [t_prev |-> c.t_prev, accum |-> None, first |-> c.first, yield |-> << x >>]

\* ------------------------------------------------- the state, as a value
\* (channel: what this critical section has sent on updates_tx so far)
St == [sessions |-> sessions,
       session_expirations |-> session_expirations,
       data_expirations |-> data_expirations,
       public_tags |-> public_tags,
       next_fetch_id |-> next_fetch_id,
       channel |-> << >>,
       db_tasks |-> db_tasks]

Commit(st) ==
    /\ sessions' = st.sessions
    /\ session_expirations' = st.session_expirations
    /\ data_expirations' = st.data_expirations
    /\ public_tags' = st.public_tags
    /\ next_fetch_id' = st.next_fetch_id
    /\ sent' = st.channel
    /\ db_tasks' = st.db_tasks
    /\ sub' = Deliver(sub, st.channel)
    /\ UNCHANGED << fed, out >>

\* From<&Session> for DbSession: the point ring is not persisted
DbSession(sid, session) ==
    [session_id |-> sid,
     expires_at |-> session.expires_at,
     fetch_id |-> session.fetch_id,
     tags |-> session.tags,
     max_points |-> session.max_points,
     max_point_age |-> session.max_point_age,
     reject_data |-> session.reject_data,
     no_stop |-> session.no_stop]

\* a conversion that restores a row with the options of a session made without any
SessionFromDb_forgetting_options(d) ==
    [locations |-> << >>,
     expires_at |-> d.expires_at,
     fetch_id |-> d.fetch_id,
     tags |-> d.tags,
     max_points |-> cfg_default_points,
     max_point_age |-> None,
     added_to_expiration |-> FALSE,
     reject_data |-> FALSE,
     no_stop |-> FALSE]

\* From<DbSession> for Session
SessionFromDb(d) ==
    [locations |-> << >>,
     expires_at |-> d.expires_at,
     fetch_id |-> d.fetch_id,
     tags |-> d.tags,
     max_points |-> d.max_points,
     max_point_age |-> d.max_point_age,
     added_to_expiration |-> FALSE,
     reject_data |-> d.reject_data,
     no_stop |-> d.no_stop]

\* an add_fetch that announces every tag of the session as public
add_fetch_publishing_all_tags(st, fetch_id, tags_aux, max_points, max_point_age, t) ==
    [st EXCEPT !.channel =
        send_update(@, Context(as_tags(tags_aux), FALSE), Meta(t, 0),
                    << AddFetch(fetch_id :> Fetch(as_tags(tags_aux), max_points, max_point_age),
                                as_tags(tags_aux)) >>)]

\* State::add_fetch
add_fetch(st, fetch_id, tags_aux, max_points, max_point_age, t) ==
    [st EXCEPT !.channel =
        send_update(@, Context(as_tags(tags_aux), FALSE), Meta(t, 0),
                    << AddFetch(fetch_id :> Fetch(as_tags(tags_aux), max_points, max_point_age),
                                tags_public(tags_aux)) >>)]

\* a max_points without the floor of one
max_points_unfloored(global_max, default_points, opt_max_points) ==
    Min(global_max,
        IF opt_max_points = None THEN default_points ELSE TheValue(opt_max_points))

\* the max_points State::add_session gives a new session, under a State made with
\* max_points = global_max and default_points
max_points_of(global_max, default_points, opt_max_points) ==
    Min(global_max,
        Max(1, IF opt_max_points = None THEN default_points ELSE TheValue(opt_max_points)))

\* the max_points of a new session (State::add_session)
session_max_points(opt_max_points) ==
    max_points_of(cfg_max_points, cfg_default_points, opt_max_points)

\* State::add_session
add_session(st, session_id, expires_at, tags_aux0, options, t) ==
    LET fetch_id == st.next_fetch_id
        tags_aux == IF tags_aux0 = {} THEN {Pub(default_tag)} ELSE tags_aux0
        new_session ==
            [locations |-> << >>,
             expires_at |-> expires_at,
             fetch_id |-> fetch_id,
             tags |-> tags_aux,
             max_points |-> session_max_points(options.max_points),
             max_point_age |-> IF options.max_point_age # None
                               THEN options.max_point_age
                               ELSE cfg_default_max_point_age,
             added_to_expiration |-> FALSE,
             reject_data |-> FALSE,
             no_stop |-> options.no_stop]
        st1 == [st EXCEPT
                  !.next_fetch_id = @ + 1,
                  !.session_expirations = HeapPush(@, << expires_at, session_id >>),
                  !.sessions = Put(@, session_id, new_session),
                  !.public_tags = add_public_tags_for_session(@, new_session)]
        st2 == add_fetch(st1, fetch_id, tags_aux, new_session.max_points,
                         new_session.max_point_age, t)
    IN [st2 EXCEPT !.db_tasks =
            @ \cup {[op |-> "insert", row |-> DbSession(session_id, new_session)]}]

\* a remove_session that tells no subscriber
remove_session_silently(st, session_id, t) ==
    IF session_id \in DOMAIN st.sessions
    THEN LET session == st.sessions[session_id]
         IN [st EXCEPT
               !.sessions = Remove(@, session_id),
               !.public_tags = remove_public_tags_for_session(@, session),
               !.db_tasks = @ \cup {[op |-> "delete", session_id |-> session_id]}]
    ELSE st

\* a remove_session that announces the end of the fetch and keeps the entry of the session
remove_session_keeping_entry(st, session_id, t) ==
    IF session_id \in DOMAIN st.sessions
    THEN LET session == st.sessions[session_id]
         IN [st EXCEPT
               !.channel = send_update(@, Context(as_tags(session.tags), FALSE), Meta(t, 0),
                                       << ExpireFetch(session.fetch_id) >>),
               !.db_tasks = @ \cup {[op |-> "delete", session_id |-> session_id]}]
    ELSE st

\* State::remove_session
remove_session(st, session_id, t) ==
    IF session_id \in DOMAIN st.sessions
    THEN LET session == st.sessions[session_id]
         IN [st EXCEPT
               !.sessions = Remove(@, session_id),
               !.channel = send_update(@, Context(as_tags(session.tags), FALSE), Meta(t, 0),
                                       << ExpireFetch(session.fetch_id) >>),
               !.public_tags = remove_public_tags_for_session(@, session),
               !.db_tasks = @ \cup {[op |-> "delete", session_id |-> session_id]}]
    ELSE st

\* State::request_remove_session
request_remove_session(st, session_id, t) ==
    IF session_id \in DOMAIN st.sessions
    THEN IF st.sessions[session_id].no_stop
         THEN [st EXCEPT !.sessions[session_id].reject_data = TRUE]
         ELSE remove_session(st, session_id, t)
    ELSE st

\* a worker round that pops the due heap entries and leaves their sessions alone
RECURSIVE remove_expired_sessions_keeping(_, _)
remove_expired_sessions_keeping(st, t) ==
    IF HeapEmpty(st.session_expirations) \/ HeapPeek(st.session_expirations)[1] > t THEN st
    ELSE remove_expired_sessions_keeping(
             [st EXCEPT !.session_expirations = HeapPop(@)], t)

\* a remove_expired_sessions that does not look at the instant of the entries
RECURSIVE remove_expired_sessions_not_yet_due(_, _)
remove_expired_sessions_not_yet_due(st, t) ==
    IF HeapEmpty(st.session_expirations) THEN st
    ELSE LET top == HeapPeek(st.session_expirations)
             st1 == [st EXCEPT !.session_expirations = HeapPop(@)]
         IN remove_expired_sessions_not_yet_due(
                IF top[2] \in DOMAIN st1.sessions
                THEN remove_session(st1, top[2], t)
                ELSE st1, t)

\* State::remove_expired_sessions
RECURSIVE remove_expired_sessions(_, _)
remove_expired_sessions(st, t) ==
    IF HeapEmpty(st.session_expirations) THEN st
    ELSE LET top == HeapPeek(st.session_expirations)
         IN IF top[1] <= t
            THEN LET st1 == [st EXCEPT !.session_expirations = HeapPop(@)]
                 IN remove_expired_sessions(
                        IF top[2] \in DOMAIN st1.sessions
                        THEN remove_session(st1, top[2], t)
                        ELSE st1, t)
            ELSE st

\* Location::time_timedelta + max_point_age
\* State::add_data_expiration
add_data_expiration(st, session_id) ==
    LET session == st.sessions[session_id]
    IN IF /\ session.max_point_age # None
          /\ ~session.added_to_expiration
          /\ session.locations # << >>
       THEN [st EXCEPT
               !.data_expirations =
                   HeapPush(@, << Head(session.locations).time + TheValue(session.max_point_age),
                                  session_id >>),
               !.sessions[session_id].added_to_expiration = TRUE]
       ELSE st

\* the while loop of State::expire_data: drop the points older than the deadline
RECURSIVE DropExpired(_, _)
DropExpired(session, deadline) ==
    IF session.locations # << >> /\ Head(session.locations).time < deadline
    THEN DropExpired([session EXCEPT !.locations = Tail(@), !.added_to_expiration = FALSE],
                     deadline)
    ELSE session

\* an expire_data that tells the subscribers of the session which points are left
expire_data_announcing(st, session_id, t) ==
    IF session_id \notin DOMAIN st.sessions THEN st
    ELSE LET session == st.sessions[session_id]
         IN IF session.max_point_age # None
            THEN LET left == DropExpired(session, t - TheValue(session.max_point_age))
                     st1 == add_data_expiration(
                                [st EXCEPT !.sessions[session_id] = left], session_id)
                 IN [st1 EXCEPT !.channel =
                        send_update(@, Context(as_tags(session.tags), FALSE), Meta(t, 0),
                                    << Reset, Add(session.fetch_id :> left.locations) >>)]
            ELSE st

\* State::expire_data
expire_data(st, session_id, t) ==
    IF session_id \notin DOMAIN st.sessions THEN st
    ELSE LET session == st.sessions[session_id]
         IN IF session.max_point_age # None
            THEN add_data_expiration(
                     [st EXCEPT !.sessions[session_id] =
                         DropExpired(session, t - TheValue(session.max_point_age))],
                     session_id)
            ELSE st

\* State::remove_expired_data
RECURSIVE remove_expired_data(_, _)
remove_expired_data(st, t) ==
    IF HeapEmpty(st.data_expirations) THEN st
    ELSE LET top == HeapPeek(st.data_expirations)
         IN IF top[1] <= t
            THEN LET st1 == [st EXCEPT !.data_expirations = HeapPop(@)]
                 IN remove_expired_data(
                        IF top[2] \in DOMAIN st1.sessions
                        THEN expire_data(st1, top[2], t)
                        ELSE st1, t)
            ELSE st

\* a ring that drops the newest point when it is full
push_location_dropping_newest(session, location) ==
    IF Len(session.locations) >= session.max_points
    THEN session
    ELSE [session EXCEPT !.locations = Append(@, location)]

\* the point ring after a push (State::add_location, locs.push_back .. pop_front)
push_location(session, location) ==
    LET pushed == Append(session.locations, location)
    IN IF Len(pushed) > session.max_points
       THEN [session EXCEPT !.locations = Tail(pushed), !.added_to_expiration = FALSE]
       ELSE [session EXCEPT !.locations = pushed]

\* add_location without the test of expires_at
add_location_ignoring_expiry(st, data, t) ==
    IF data.session_id \notin DOMAIN st.sessions
    THEN [st |-> st, result |-> "NoSuchSession"]
    ELSE LET session == st.sessions[data.session_id]
         IN IF session.reject_data
            THEN [st |-> st, result |-> "NoSuchSession"]
            ELSE LET new_location == [time |-> data.time, lat |-> data.latitude]
                     st1 == [st EXCEPT !.sessions[data.session_id] =
                                push_location(session, new_location)]
                     st2 == add_data_expiration(st1, data.session_id)
                 IN [st |-> [st2 EXCEPT !.channel =
                                send_update(@, Context(as_tags(session.tags), FALSE), Meta(t, 0),
                                            << Add(session.fetch_id :> << new_location >>) >>)],
                     result |-> "Ok"]

\* add_location answering every post that it does not accept as a post to an expired session
add_location_absent_as_expired(st, data, t) ==
    IF /\ data.session_id \in DOMAIN st.sessions
       /\ ~st.sessions[data.session_id].reject_data
       /\ st.sessions[data.session_id].expires_at >= t
    THEN add_location_ignoring_expiry(st, data, t)
    ELSE [st |-> remove_session(st, data.session_id, t), result |-> "SessionExpired"]

\* State::add_location: the new state and the Result
add_location(st, data, t) ==
    IF data.session_id \notin DOMAIN st.sessions
    THEN [st |-> st, result |-> "NoSuchSession"]
    ELSE LET session == st.sessions[data.session_id]
         IN IF session.reject_data
            THEN [st |-> st, result |-> "NoSuchSession"]
            ELSE IF session.expires_at < t
            THEN [st |-> remove_session(st, data.session_id, t), result |-> "SessionExpired"]
            ELSE LET new_location == [time |-> data.time, lat |-> data.latitude]
                     st1 == [st EXCEPT !.sessions[data.session_id] =
                                push_location(session, new_location)]
                     st2 == add_data_expiration(st1, data.session_id)
                 IN [st |-> [st2 EXCEPT !.channel =
                                send_update(@, Context(as_tags(session.tags), FALSE), Meta(t, 0),
                                            << Add(session.fetch_id :> << new_location >>) >>)],
                     result |-> "Ok"]

\* State::load_state, on the rows of the sessions table
RECURSIVE RestoreRows(_, _, _)
RestoreRows(st, rows, t) ==
    IF rows = {} THEN st
    ELSE LET d == CHOOSE x \in rows : TRUE
             session == SessionFromDb(d)
         IN RestoreRows(
                IF d.expires_at > t
                THEN [st EXCEPT
                        !.public_tags = add_public_tags_for_session(@, session),
                        !.session_expirations =
                            HeapPush(@, << session.expires_at, d.session_id >>),
                        !.sessions = Put(@, d.session_id, session)]
                ELSE st,
                rows \ {d}, t)

SetMax(S) == IF S = {} THEN 0 ELSE CHOOSE x \in S : \A y \in S : y <= x

\* a load_state that restarts the fetch id counter
load_state_counter_reset(st, table, t) ==
    [RestoreRows(st, {table[k] : k \in DOMAIN table}, t) EXCEPT !.next_fetch_id = 1]

\* State::load_state
load_state(st, table, t) ==
    LET rows == {table[k] : k \in DOMAIN table}
        st1 == RestoreRows(st, rows, t)
        highest_fetch_id == SetMax({d.fetch_id : d \in {x \in rows : x.expires_at > t}})
    IN [st1 EXCEPT !.next_fetch_id = highest_fetch_id + 1]

\* the rows load_state leaves in the table
load_state_db(table, t) ==
    [k \in {x \in DOMAIN table : table[x].expires_at > t} |-> table[k]]

EmptyFn == [x \in {} |-> 0]

\* State::new, before load_state
NewState ==
    [sessions |-> EmptyFn,
     session_expirations |-> EmptyBag,
     data_expirations |-> EmptyBag,
     public_tags |-> add_public_tag(EmptyFn, default_tag),
     next_fetch_id |-> 0,
     channel |-> << >>,
     db_tasks |-> {}]

\* ------------------------------------------------------------- inputs
\* the password file: a plain password, and a value bcrypt cannot parse
users == ("alice" :> "secret") @@ ("mallory" :> "$broken")

\* State::authenticate: Ok(true), Ok(false) or Err
authenticate(user, password) ==
    IF user \notin DOMAIN users THEN "Err"
    ELSE IF users[user] = "$broken" THEN "Err"
    ELSE IF users[user] = password THEN "Ok(true)" ELSE "Ok(false)"

\* a check_token that accepts every token
check_token_any(self, token) == TRUE

\* State::check_token
check_token(self, token) == contains(self, token)

\* State::create_token with the id token from utils::generate_id: the token set
\* afterwards and the Result (Ok(Some(token)), Ok(None) or Err)
create_token(self, user, password, token) ==
    LET a == authenticate(user, password)
    IN IF a = "Err" THEN [tokens |-> self, result |-> [kind |-> "Err"]]
       ELSE IF a = "Ok(true)"
       THEN [tokens |-> insert(self, token), result |-> [kind |-> "Ok", value |-> Some(token)]]
       ELSE [tokens |-> self, result |-> [kind |-> "Ok", value |-> None]]

Options(max_points, max_point_age, no_stop) ==
    [max_points |-> max_points, max_point_age |-> max_point_age, no_stop |-> no_stop]

\* what TagsAux::parse_share_id returns for the share ids the clients send
Parsed(tags, options) == [ok |-> TRUE, tags |-> tags, options |-> options]
ParseError == [ok |-> FALSE]

\* --------------------------------------------------------- coordinates
\* an f64 with its significand cut down to SignificandBits bits: a value is an integer
\* number of units, the operations give the exact result rounded to the nearest value
\* that can be written, ties to the even significand
Abs(k) == IF k < 0 THEN -k ELSE k

RECURSIVE Pow2(_)
Pow2(n) == IF n = 0 THEN 1 ELSE 2 * Pow2(n - 1)

\* the number of binary digits of a positive integer
RECURSIVE BitLength(_)
BitLength(a) == IF a = 0 THEN 0 ELSE 1 + BitLength(a \div 2)

f64_round(k) ==
    LET a == Abs(k)
        e == BitLength(a) - SignificandBits
        q == Pow2(e)
        lo == (a \div q) * q
        hi == lo + q
        nearest == IF 2 * (a - lo) < q THEN lo
                   ELSE IF 2 * (a - lo) > q THEN hi
                   ELSE IF (lo \div q) % 2 = 0 THEN lo ELSE hi
    IN IF e <= 0 THEN k
       ELSE IF k < 0 THEN -nearest ELSE nearest

f64_add(a, b) == f64_round(a + b)
f64_sub(a, b) == f64_round(a - b)

\* the % of two f64: exact, with the sign of the dividend
f64_rem(a, b) == IF a < 0 THEN -(Abs(a) % Abs(b)) ELSE a % Abs(b)

\* f64::rem_euclid: the remainder, with the modulus added to it if it is negative
rem_euclid(self, rhs) ==
    LET r == f64_rem(self, rhs)
    IN IF r < 0 THEN f64_add(r, Abs(rhs)) ELSE r

\* BoxCoords::wrap_coordinate
wrap_coordinate(value, min, max) ==
    LET range_len == f64_sub(max, min)
    IN IF range_len = 0 THEN value
       ELSE f64_add(rem_euclid(f64_sub(value, min), range_len), min)

\* BoxCoords::wrap_latitude and BoxCoords::wrap_longitude
wrap_latitude(self, lat) == wrap_coordinate(lat, self.lat1, self.lat2)
wrap_longitude(self, lng) == wrap_coordinate(lng, self.lng1, self.lng2)

\* BoxCoords::from_str, from the numbers the parts of the string were parsed to:
\* four parts, each pair put in order, and no range of length zero
from_str(parts) ==
    IF Len(parts) # 4 THEN [ok |-> FALSE]
    ELSE LET lat1_input == parts[1]
             lng1_input == parts[2]
             lat2_input == parts[3]
             lng2_input == parts[4]
             min_lat == IF lat1_input < lat2_input THEN lat1_input ELSE lat2_input
             max_lat == IF lat1_input < lat2_input THEN lat2_input ELSE lat1_input
             min_lng == IF lng1_input < lng2_input THEN lng1_input ELSE lng2_input
             max_lng == IF lng1_input < lng2_input THEN lng2_input ELSE lng1_input
         IN IF min_lat = max_lat \/ min_lng = max_lng THEN [ok |-> FALSE]
            ELSE [ok |-> TRUE,
                  value |-> [lat1 |-> min_lat, lng1 |-> min_lng,
                             lat2 |-> max_lat, lng2 |-> max_lng]]

\* ------------------------------------------------------------ share ids
\* a string is the sequence of its characters
Letters ==
    {"a", "b", "c", "d", "e", "f", "g", "h", "i", "j", "k", "l", "m",
     "n", "o", "p", "q", "r", "s", "t", "u", "v", "w", "x", "y", "z"}
Digits == << "0", "1", "2", "3", "4", "5", "6", "7", "8", "9" >>

\* char::is_whitespace and char::is_alphanumeric, on the characters of the model
is_whitespace(c) == c = " "
is_alphanumeric(c) == c \in Letters \cup Range(Digits)
is_digit(c) == c \in Range(Digits)
digit_value(c) == (CHOOSE i \in 1 .. 10 : Digits[i] = c) - 1

\* str::split: the pieces between the separators; an empty string has one empty piece
RECURSIVE split(_, _)
split(s, sep) ==
    IF \A i \in 1 .. Len(s) : s[i] # sep THEN << s >>
    ELSE LET i == CHOOSE k \in 1 .. Len(s) :
                     s[k] = sep /\ \A j \in 1 .. (k - 1) : s[j] # sep
         IN << SubSeq(s, 1, i - 1) >> \o split(SubSeq(s, i + 1, Len(s)), sep)

\* str::split_once: what is before and after the first separator, if there is one
split_once(s, sep) ==
    IF \A i \in 1 .. Len(s) : s[i] # sep THEN None
    ELSE LET i == CHOOSE k \in 1 .. Len(s) :
                     s[k] = sep /\ \A j \in 1 .. (k - 1) : s[j] # sep
         IN Some(<< SubSeq(s, 1, i - 1), SubSeq(s, i + 1, Len(s)) >>)

\* str::trim
RECURSIVE trim(_)
trim(s) ==
    IF s = << >> THEN s
    ELSE IF is_whitespace(s[1]) THEN trim(Tail(s))
    ELSE IF is_whitespace(s[Len(s)]) THEN trim(SubSeq(s, 1, Len(s) - 1))
    ELSE s

\* the elements of a sequence joined with a separator
RECURSIVE join(_, _)
join(parts, sep) ==
    IF parts = << >> THEN << >>
    ELSE IF Len(parts) = 1 THEN parts[1]
    ELSE parts[1] \o << sep >> \o join(Tail(parts), sep)

\* Tag::new: the trimmed name, or an error (None) if it is empty or has a character
\* that is not alphanumeric, a dash or an underscore
Tag_new(tag) ==
    LET trimmed_tag == trim(tag)
    IN IF trimmed_tag = << >> THEN None
       ELSE IF \E i \in 1 .. Len(trimmed_tag) :
                  /\ ~is_alphanumeric(trimmed_tag[i])
                  /\ trimmed_tag[i] \notin {"-", "_"}
            THEN None
       ELSE Some(trimmed_tag)

\* the number a string of digits writes
RECURSIVE number_of(_)
number_of(digits) ==
    IF digits = << >> THEN 0
    ELSE 10 * number_of(SubSeq(digits, 1, Len(digits) - 1))
         + digit_value(digits[Len(digits)])

\* str::parse::<usize>: digits after an optional plus sign (the strings of the model
\* are too short to overflow a usize)
parse_usize(value) ==
    LET digits == IF value # << >> /\ value[1] = "+" THEN Tail(value) ELSE value
    IN IF digits = << >> \/ \E i \in 1 .. Len(digits) : ~is_digit(digits[i])
       THEN None
       ELSE Some(number_of(digits))

\* the seconds of one unit of a human duration
unit_seconds(c) == IF c = "s" THEN 1 ELSE IF c = "m" THEN 60 ELSE 3600

\* utils::parse_timedelta: a human duration such as 10s or 2h30m, in seconds; None
\* for anything else
RECURSIVE parse_timedelta(_)
parse_timedelta(value) ==
    IF \A i \in 1 .. Len(value) : value[i] \notin {"s", "m", "h"} THEN None
    ELSE LET i == CHOOSE k \in 1 .. Len(value) :
                     /\ value[k] \in {"s", "m", "h"}
                     /\ \A j \in 1 .. (k - 1) : value[j] \notin {"s", "m", "h"}
             digits == SubSeq(value, 1, i - 1)
             rest == SubSeq(value, i + 1, Len(value))
         IN IF digits = << >> \/ \E j \in 1 .. Len(digits) : ~is_digit(digits[j])
            THEN None
            ELSE IF rest = << >>
            THEN Some(number_of(digits) * unit_seconds(value[i]))
            ELSE IF parse_timedelta(rest) = None THEN None
            ELSE Some(number_of(digits) * unit_seconds(value[i])
                      + TheValue(parse_timedelta(rest)))

\* Options::default, with every field of the struct
Options_default ==
    [max_points |-> None, max_point_age |-> None, no_stop |-> FALSE,
     log |-> None, name |-> None]

\* models::Log
Log(name) == [name |-> name]

\* the loop of parse_share_id over the fields: the first field that fails ends it
RECURSIVE parse_fields(_, _, _)
parse_fields(fields, tags, options) ==
    IF fields = << >> THEN Parsed(tags, options)
    ELSE
    LET field == Head(fields)
        rest == Tail(fields)
        split_field == split_once(field, ":")
        keyword == TheValue(split_field)[1]
        value == TheValue(split_field)[2]
    IN IF field = << >> THEN parse_fields(rest, tags, options)
       ELSE IF split_field # None
       THEN IF keyword \in { << "p", "u", "b" >>, << "p", "u", "b", "l", "i", "c" >> }
            THEN IF Tag_new(value) = None THEN ParseError
                 ELSE parse_fields(rest, tags \cup {Pub(TheValue(Tag_new(value)))},
                                   options)
            ELSE IF keyword \in { << "p", "r", "i", "v" >>,
                                  << "p", "r", "i", "v", "a", "t", "e" >> }
            THEN IF Tag_new(value) = None THEN ParseError
                 ELSE parse_fields(rest, tags \cup {Priv(TheValue(Tag_new(value)))},
                                   options)
            ELSE IF keyword = << "p", "o", "i", "n", "t", "s" >>
            THEN IF parse_usize(value) = None THEN ParseError
                 ELSE parse_fields(rest, tags,
                                   [options EXCEPT !.max_points = parse_usize(value)])
            ELSE IF keyword = << "e", "x", "p", "i", "r", "e" >>
            THEN IF parse_timedelta(value) = None THEN ParseError
                 ELSE parse_fields(rest, tags,
                                   [options EXCEPT
                                       !.max_point_age = parse_timedelta(value)])
            ELSE IF keyword = << "n", "a", "m", "e" >>
            THEN parse_fields(rest, tags, [options EXCEPT !.name = Some(value)])
            ELSE IF keyword = << "l", "o", "g" >>
            THEN IF value = << "n", "a", "m", "e" >>
                 THEN parse_fields(rest, tags,
                                   [options EXCEPT !.log = Some(Log(TRUE))])
                 ELSE ParseError
            ELSE ParseError
       ELSE IF field = << "n", "o", "s", "t", "o", "p" >>
       THEN parse_fields(rest, tags, [options EXCEPT !.no_stop = TRUE])
       ELSE IF field = << "l", "o", "g" >>
       THEN parse_fields(rest, tags, [options EXCEPT !.log = Some(Log(FALSE))])
       ELSE IF Tag_new(field) = None THEN ParseError
       ELSE parse_fields(rest, tags \cup {Priv(TheValue(Tag_new(field)))}, options)

\* TagsAux::parse_share_id: without a share id, one private tag named by a generated
\* id; with one, its fields after the whitespace is taken out
parse_share_id(share_id, generated_id) ==
    IF share_id = None
    THEN Parsed({Priv(generated_id)}, Options_default)
    ELSE LET share_id_processed ==
                 SelectSeq(TheValue(share_id), LAMBDA c : ~is_whitespace(c))
         IN parse_fields(split(share_id_processed, ","), {}, Options_default)

\* Display for TagAux
to_string(tag_aux) ==
    (IF tag_aux.visibility = "Public"
     THEN << "p", "u", "b" >> ELSE << "p", "r", "i", "v" >>)
    \o << ":" >> \o tag_aux.name

\* the orders in which a HashSet may be iterated
Orders(set) ==
    {order \in [1 .. Cardinality(set) -> set] : Range(order) = set}

\* the share id create_session returns: the tags, each written by to_string, joined
\* with commas in the order the set is iterated
returned_share_id(order) ==
    join([i \in 1 .. Len(order) |-> to_string(order[i])], ",")

Credentials == { << "alice", "secret" >>, << "alice", "guess" >> }
\* the logins: a user with the right and with a wrong password, and an unknown user
Logins == Credentials \cup { << "bob", "secret" >> }
\* the requests of Logins, and one by a user whose stored hash bcrypt cannot read
AuthLogins == Logins \cup { << "mallory", "secret" >> }
\* the tokens minted so far, and one that was never minted
TokenIds == 1 .. (Len(inserted) + 1)
Shares ==
    { Parsed({}, Options(None, None, FALSE)),
      Parsed({Pub("a"), Priv("b")}, Options(Some(1), Some(1), TRUE)),
      Parsed({Pub("a")}, Options(Some(3), Some(1), FALSE)),
      ParseError }
\* the share ids of the runs with a database
DbShares ==
    { Parsed({}, Options(None, None, FALSE)),
      Parsed({Pub("a"), Priv("b")}, Options(Some(1), Some(1), TRUE)) }
\* the share ids and the tags of the runs with a subscriber
SubShares ==
    { Parsed({}, Options(None, None, FALSE)),
      Parsed({Pub("a"), Priv("b")}, Options(Some(1), None, FALSE)) }
StreamTags == { {}, {"a"}, {"b"} }
SnapTags == { {}, {"a"} }
Durations == {1, 2}
\* the ids handed out so far, and one that was never handed out
SessionIds == 1 .. (ids_used + 1)
PostTimes == {0, now}

\* ------------------------------------------------------ bookkeeping
\* the fetch ids of the ExpireFetch changes among the updates msgs
RECURSIVE ExpiredIn(_)
ExpiredIn(msgs) ==
    IF msgs = << >> THEN << >>
    ELSE (IF Head(msgs).changes # << >> /\ Head(msgs).changes[1].kind = "ExpireFetch"
          THEN << Head(msgs).changes[1].fetch_id >> ELSE << >>) \o ExpiredIn(Tail(msgs))

Count(seq, x) == Cardinality({i \in 1 .. Len(seq) : seq[i] = x})
Track(st) ==
    /\ accepted' = [s \in DOMAIN st.sessions |->
                       IF s \in DOMAIN accepted THEN accepted[s] ELSE << >>]
    /\ aged' = aged \cap DOMAIN st.sessions
    /\ expire_count' =
          LET e == ExpiredIn(st.channel)
          IN [f \in DOMAIN expire_count \cup Range(e) |->
                 (IF f \in DOMAIN expire_count THEN expire_count[f] ELSE 0) + Count(e, f)]

\* -------------------------------------------------------------- actions
\* every action is one step of the run
Op == ops' = ops + 1 /\ worker' = worker

\* a create_session that takes a fetch id before it looks at the request
CreateSession_consuming_fetch_id(cred, share, dur) ==
    /\ Op
    /\ IF authenticate(cred[1], cred[2]) # "Ok(true)" \/ ~share.ok
       THEN /\ last' = [op |-> "create",
                        result |-> IF authenticate(cred[1], cred[2]) # "Ok(true)"
                                   THEN 401 ELSE 400,
                        body |-> IF authenticate(cred[1], cred[2]) # "Ok(true)"
                                 THEN "" ELSE "The format of share id is not permitted"]
            /\ sent' = << >>
            /\ next_fetch_id' = next_fetch_id + 1
            /\ UNCHANGED << sessions, session_expirations, data_expirations, public_tags,
                            db_tasks, ids_used, accepted, aged, issued,
                            expire_count, sub_vars >>
       ELSE LET session_id == ids_used + 1
                st == add_session(St, session_id, now + dur, share.tags, share.options, now)
            IN /\ Commit(st)
               /\ ids_used' = ids_used + 1
               /\ last' = [op |-> "create", result |-> 200, session_id |-> session_id]
               /\ issued' = Append(issued, [fetch_id |-> st.sessions[session_id].fetch_id,
                                             tags |-> as_tags(st.sessions[session_id].tags)])
               /\ Track(st)
    /\ UNCHANGED << now, db, restarts, tokens, inserted, restored >>

\* handlers::create_session
CreateSession(cred, share, dur) ==
    /\ Op
    /\ IF authenticate(cred[1], cred[2]) # "Ok(true)"
       THEN /\ last' = [op |-> "create", result |-> 401, body |-> ""]
            /\ sent' = << >>
            /\ UNCHANGED << sessions, session_expirations, data_expirations, public_tags,
                            next_fetch_id, db_tasks, ids_used, accepted, aged, issued,
                            expire_count, sub_vars >>
       ELSE IF ~share.ok
       THEN /\ last' = [op |-> "create", result |-> 400,
                        body |-> "The format of share id is not permitted"]
            /\ sent' = << >>
            /\ UNCHANGED << sessions, session_expirations, data_expirations, public_tags,
                            next_fetch_id, db_tasks, ids_used, accepted, aged, issued,
                            expire_count, sub_vars >>
       ELSE LET session_id == ids_used + 1
                st == add_session(St, session_id, now + dur, share.tags, share.options, now)
            IN /\ Commit(st)
               /\ ids_used' = ids_used + 1
               /\ last' = [op |-> "create", result |-> 200, session_id |-> session_id]
               /\ issued' = Append(issued, [fetch_id |-> st.sessions[session_id].fetch_id,
                                             tags |-> as_tags(st.sessions[session_id].tags)])
               /\ Track(st)
    /\ UNCHANGED << now, db, restarts, tokens, inserted, restored >>

\* handlers::stop_session
StopSession(sid) ==
    LET st == remove_session(St, sid, now)
    IN /\ Op
       /\ Commit(st)
       /\ last' = [op |-> "stop", result |-> 200, session_id |-> sid,
                   session |-> IF sid \in DOMAIN sessions THEN Some(sessions[sid]) ELSE None]
       /\ Track(st)
       /\ UNCHANGED << now, db, ids_used, restarts, tokens, inserted, restored, issued >>

\* handlers::post_location
PostLocation(sid, time) ==
    LET data == [session_id |-> sid, time |-> time,
                 latitude |-> IF sid \in DOMAIN accepted THEN Len(accepted[sid]) + 1 ELSE 0]
        r == add_location(St, data, now)
    IN /\ Op
       /\ Commit(r.st)
       /\ last' = [op |-> "post", session_id |-> sid,
                   result |-> CASE r.result = "Ok" -> 200
                                [] r.result = "NoSuchSession" -> 404
                                [] OTHER -> 410]
       /\ expire_count' =
             LET e == ExpiredIn(r.st.channel)
             IN [f \in DOMAIN expire_count \cup Range(e) |->
                    (IF f \in DOMAIN expire_count THEN expire_count[f] ELSE 0) + Count(e, f)]
       /\ accepted' = [s \in DOMAIN r.st.sessions |->
                          IF s = sid /\ r.result = "Ok"
                          THEN Append(accepted[s], [time |-> data.time, lat |-> data.latitude])
                          ELSE accepted[s]]
       /\ aged' = aged \cap DOMAIN r.st.sessions
       /\ UNCHANGED << now, db, ids_used, restarts, tokens, inserted, restored, issued >>

\* one round of State::remove_expired_sessions_task
\* get_sleep_duration: the time to the instant of the top entry (one unit if that cannot
\* be written as a Duration), or the sentinel if the heap is empty
get_sleep_duration(expirations, t) ==
    IF HeapEmpty(expirations) THEN SleepSentinel
    ELSE IF HeapPeek(expirations)[1] - t < 0 THEN 1
    ELSE HeapPeek(expirations)[1] - t

\* the critical section of remove_expired_sessions_task: the expired sessions are
\* removed and, before the lock is released, the next sleep is computed
ExpireSessionsRound(counted, sleeps) ==
    \E st \in {remove_expired_sessions(St, now)} :
       /\ ops' = ops + 1
       /\ worker' = IF sleeps
                    THEN [worker EXCEPT
                            !.pc = "unlocked",
                            !.deadline = now + get_sleep_duration(st.session_expirations,
                                                                  now)]
                    ELSE worker
       /\ Commit(st)
       /\ last' = IF counted
                  THEN [op |-> "expire_sessions",
                        popped |-> BagCardinality(session_expirations)
                                   - BagCardinality(st.session_expirations),
                        removed |-> Cardinality(DOMAIN sessions \ DOMAIN st.sessions)]
                  ELSE [op |-> "expire_sessions"]
       /\ Track(st)
       /\ UNCHANGED << now, db, ids_used, restarts, tokens, inserted, restored, issued >>

RemoveExpiredSessionsTask == ExpireSessionsRound(FALSE, FALSE)

\* the same round, with the number of entries it popped and of sessions it removed
\* written down
RemoveExpiredSessionsCounted == ExpireSessionsRound(TRUE, FALSE)

\* the worker takes the lock, runs its round and releases the lock, knowing how long
\* to sleep
WorkerRound == worker.pc = "run" /\ ExpireSessionsRound(FALSE, TRUE)

\* what no step of the worker's select changes
WorkerOnly ==
    /\ ops' = ops + 1
    /\ sent' = << >>
    /\ UNCHANGED << now, sessions, session_expirations, data_expirations, public_tags,
                    next_fetch_id, db, db_tasks, ids_used, restarts, tokens, inserted,
                    accepted, aged, restored, issued, expire_count, sub_vars >>

\* the worker enters select!: the sleep starts and the Notified future of
\* session_added is created; it is woken by the notify_waiters calls made from now on,
\* one per add_session, which are counted by next_fetch_id
WorkerSelect ==
    /\ worker.pc = "unlocked"
    /\ worker' = [worker EXCEPT !.pc = "waiting", !.registered = next_fetch_id]
    /\ last' = [op |-> "select"]
    /\ WorkerOnly

\* the sleep of the waiting worker has run out, or notify_waiters was called since it
\* started to wait
Woken ==
    \/ now >= worker.deadline
    \/ next_fetch_id > worker.registered

\* select! returns and the worker loops
WorkerWake ==
    /\ worker.pc = "waiting"
    /\ Woken
    /\ worker' = [worker EXCEPT !.pc = "run"]
    /\ last' = [op |-> "wake"]
    /\ WorkerOnly

\* one round of State::remove_expired_data_task
RemoveExpiredDataTask ==
    \E st \in {remove_expired_data(St, now)} :
       /\ Op
       /\ Commit(st)
       /\ last' = [op |-> "expire_data"]
       /\ aged' = aged \cup {s \in DOMAIN sessions :
                                Len(st.sessions[s].locations) < Len(sessions[s].locations)}
       /\ UNCHANGED << now, db, ids_used, restarts, tokens, inserted, restored, issued, accepted,
                       expire_count >>

\* a spawned DbClient::insert_session or DbClient::delete_session runs
DbTaskRun(task) ==
    /\ Op
    /\ task \in db_tasks
    /\ db_tasks' = db_tasks \ {task}
    /\ db' = IF task.op = "insert"
             THEN IF task.row.session_id \in DOMAIN db
                  THEN db
                  ELSE Put(db, task.row.session_id, task.row)
             ELSE Remove(db, task.session_id)
    /\ last' = [op |-> "db"]
    /\ sent' = << >>
    /\ UNCHANGED << now, sessions, session_expirations, data_expirations, public_tags,
                    next_fetch_id, ids_used, restarts, tokens, inserted, accepted, aged,
                    restored, issued,
                    expire_count, sub_vars >>

\* the process is stopped and started again on the same database file: State::new
Restart ==
    /\ Op
    /\ LET st == load_state(NewState, db, now)
       IN /\ sessions' = st.sessions
          /\ session_expirations' = st.session_expirations
          /\ data_expirations' = st.data_expirations
          /\ public_tags' = st.public_tags
          /\ next_fetch_id' = st.next_fetch_id
          /\ accepted' = [s \in DOMAIN st.sessions |-> << >>]
          /\ restored' = {st.sessions[s].fetch_id : s \in DOMAIN st.sessions}
    /\ db_tasks' = {}
    /\ sent' = << >>
    /\ sub' = NoSubscriber
    /\ fed' = << >>
    /\ out' = << >>
    /\ db' = load_state_db(db, now)
    /\ aged' = {}
    /\ issued' = << >>
    /\ expire_count' = EmptyFn
    /\ restarts' = restarts + 1
    /\ tokens' = BoundedSet(MAX_TOKENS)
    /\ inserted' = << >>
    /\ last' = [op |-> "restart", tasks_done |-> db_tasks = {}]
    /\ UNCHANGED << now, ids_used >>

\* a login that tells an unknown user from a wrong password
Login_telling_unknown_user(cred) ==
    LET token == Len(inserted) + 1
        r == create_token(tokens, cred[1], cred[2], token)
        minted == r.result.kind = "Ok" /\ r.result.value # None
    IN /\ Op
       /\ tokens' = r.tokens
       /\ inserted' = IF minted THEN Append(inserted, token) ELSE inserted
       /\ last' = [op |-> "login",
                   result |-> IF minted THEN 200
                              ELSE IF cred[1] \notin DOMAIN users THEN 404 ELSE 401,
                   body |-> IF minted THEN "token" ELSE "Invalid credentials.",
                   cred |-> cred, returned |-> r.result]
       /\ sent' = << >>
       /\ UNCHANGED << now, sessions, session_expirations, data_expirations, public_tags,
                       next_fetch_id, db, db_tasks, ids_used, restarts,
                       accepted, aged, restored, issued, expire_count, sub_vars >>

\* handlers::login
Login(cred) ==
    LET token == Len(inserted) + 1
        r == create_token(tokens, cred[1], cred[2], token)
        minted == r.result.kind = "Ok" /\ r.result.value # None
    IN /\ Op
       /\ tokens' = r.tokens
       /\ inserted' = IF minted THEN Append(inserted, token) ELSE inserted
       /\ last' = [op |-> "login", result |-> IF minted THEN 200 ELSE 401,
                   body |-> IF minted THEN "token" ELSE "Invalid credentials.",
                   cred |-> cred, returned |-> r.result]
       /\ sent' = << >>
       /\ UNCHANGED << now, sessions, session_expirations, data_expirations, public_tags,
                       next_fetch_id, db, db_tasks, ids_used, restarts,
                       accepted, aged, restored, issued, expire_count, sub_vars >>

\* handlers::stream
Stream(token, tags) ==
    /\ Op
    /\ IF ~check_token(tokens, token)
       THEN /\ last' = [op |-> "stream", result |-> 401, token |-> token]
            /\ UNCHANGED sub
       ELSE /\ ~sub.active
            /\ LET auto_subscribe == tags = {}
                   subscribed == IF auto_subscribe THEN DOMAIN public_tags ELSE tags
                   initial_message == initial_update(subscribed, sessions, public_tags, now)
               IN sub' = [active |-> TRUE,
                          auto_subscribe |-> auto_subscribe,
                          subscribed_tags |-> subscribed,
                          first_stream |-> Some(UpdateWithContext(initial_message.context,
                                                                  initial_message)),
                          rx |-> << >>, lagged |-> 0, lag_errors |-> 0,
                          t_prev |-> None, accum |-> None, first |-> TRUE]
            /\ last' = [op |-> "stream", result |-> 200, token |-> token]
    /\ sent' = << >>
    /\ UNCHANGED << now, sessions, session_expirations, data_expirations, public_tags,
                    next_fetch_id, db, db_tasks, ids_used, restarts, tokens, inserted,
                    accepted, aged, restored, issued, expire_count, fed, out >>

\* the max_points computed by State::add_session for the options of one request,
\* under the configuration of InitPoints
AddSessionPoints(opt_max_points) ==
    /\ Op
    /\ last' = [op |-> "add_session",
                global_max |-> last.global_max,
                default_points |-> last.default_points,
                requested |-> opt_max_points,
                max_points |-> max_points_of(last.global_max, last.default_points,
                                             opt_max_points)]
    /\ sent' = << >>
    /\ UNCHANGED << now, sessions, session_expirations, data_expirations, public_tags,
                    next_fetch_id, db, db_tasks, ids_used, restarts, tokens, inserted,
                    accepted, aged, restored, issued, expire_count, sub_vars >>

\* one call of BoundedSet::insert
SetInsert(value) ==
    /\ Op
    /\ tokens' = insert(tokens, value)
    /\ inserted' = Append(inserted, value)
    /\ last' = [op |-> "insert", value |-> value]
    /\ sent' = << >>
    /\ UNCHANGED << now, sessions, session_expirations, data_expirations, public_tags,
                    next_fetch_id, db, db_tasks, ids_used, restarts,
                    accepted, aged, restored, issued, expire_count, sub_vars >>

\* the connection polls its stream once: the next item of chain(first_stream, updates)
\* goes through the filter of Updates::updates and one turn of coalesce_stream
SubPoll ==
    /\ Op
    /\ sub.active
    /\ sub.first_stream # None \/ sub.lagged > 0 \/ sub.rx # << >>
    /\ LET from_first == sub.first_stream # None
           x == IF sub.lagged > 0
                THEN [ok |-> FALSE, lagged_by |-> sub.lagged]
                ELSE [ok |-> TRUE, msg |-> Head(sub.rx)]
       IN \E f \in {IF from_first
                    THEN [subscribed_tags |-> sub.subscribed_tags,
                          item |-> Some([ok |-> TRUE,
                                         event |-> TheValue(sub.first_stream)])]
                    ELSE filter_stage(sub.subscribed_tags, sub.auto_subscribe, x)} :
          \E c \in {IF f.item = None
                    THEN [t_prev |-> sub.t_prev, accum |-> sub.accum, first |-> sub.first,
                          yield |-> << >>]
                    ELSE coalesce_stream(sub, TheValue(f.item), now)} :
          /\ sub' = [sub EXCEPT
                       !.first_stream = None,
                       !.rx = IF from_first \/ ~x.ok THEN @ ELSE Tail(@),
                       !.lagged = IF from_first THEN @ ELSE 0,
                       !.lag_errors = IF from_first \/ x.ok THEN @ ELSE @ + 1,
                       !.subscribed_tags = f.subscribed_tags,
                       !.t_prev = c.t_prev, !.accum = c.accum, !.first = c.first]
          /\ fed' = IF f.item = None THEN fed
                    ELSE Append(fed, [item |-> TheValue(f.item),
                                      snapshot |-> from_first,
                                      context |-> IF from_first
                                                  THEN Context(sub.subscribed_tags, FALSE)
                                                  ELSE x.msg.context,
                                      filter_tags |-> f.subscribed_tags])
          /\ out' = out \o c.yield
    /\ last' = [op |-> "poll"]
    /\ sent' = << >>
    /\ UNCHANGED << now, sessions, session_expirations, data_expirations, public_tags,
                    next_fetch_id, db, db_tasks, ids_used, restarts, tokens, inserted,
                    accepted, aged, restored, issued, expire_count >>

\* the sleep of Updates::update_heartbeat ends, one update interval after the last
\* heartbeat, and the next heartbeat is sent
HeartbeatTurn ==
    /\ Op
    /\ now' = now + update_interval
    /\ LET msg == Msg(Context({}, TRUE), Meta(now + update_interval, update_interval), << >>)
       IN /\ sent' = << msg >>
          /\ sub' = Deliver(sub, << msg >>)
    /\ last' = [op |-> "heartbeat"]
    /\ UNCHANGED << sessions, session_expirations, data_expirations, public_tags,
                    next_fetch_id, db, db_tasks, ids_used, restarts, tokens, inserted,
                    accepted, aged, restored, issued, expire_count, fed, out >>

\* one turn of the loop of Updates::update_heartbeat
Heartbeat ==
    /\ Op
    /\ LET msg == Msg(Context({}, TRUE), Meta(now, update_interval), << >>)
       IN /\ sent' = << msg >>
          /\ sub' = Deliver(sub, << msg >>)
    /\ last' = [op |-> "heartbeat"]
    /\ UNCHANGED << now, sessions, session_expirations, data_expirations, public_tags,
                    next_fetch_id, db, db_tasks, ids_used, restarts, tokens, inserted,
                    accepted, aged, restored, issued, expire_count, fed, out >>

Tick ==
    /\ Op
    /\ now' = now + 1
    /\ last' = [op |-> "tick"]
    /\ sent' = << >>
    /\ UNCHANGED << sessions, session_expirations, data_expirations, public_tags,
                    next_fetch_id, db, db_tasks, ids_used, restarts, tokens, inserted,
                    accepted, aged, restored, issued, expire_count, sub_vars >>

\* the fields of a State before its first request
InitFields ==
    /\ now = 0
    /\ sessions = EmptyFn
    /\ session_expirations = EmptyBag
    /\ data_expirations = EmptyBag
    /\ public_tags = add_public_tag(EmptyFn, default_tag)
    /\ next_fetch_id = 1
    /\ db = EmptyFn
    /\ db_tasks = {}
    /\ ids_used = 0
    /\ restarts = 0
    /\ sent = << >>
    /\ accepted = EmptyFn
    /\ aged = {}
    /\ restored = {}
    /\ issued = << >>
    /\ expire_count = EmptyFn
    /\ sub = NoSubscriber
    /\ fed = << >>
    /\ out = << >>
    /\ worker = [pc |-> "run", deadline |-> 0, registered |-> 0]
    /\ ops = 0

\* State::new on an empty database file
InitEngine ==
    /\ last = [op |-> "new"]
    /\ InitFields

\* State::new
Init ==
    /\ InitEngine
    /\ tokens = BoundedSet(MAX_TOKENS)
    /\ inserted = << >>

\* the state after one successful login
InitLoggedIn ==
    /\ InitEngine
    /\ tokens = insert(BoundedSet(MAX_TOKENS), 1)
    /\ inserted = << 1 >>

\* a new BoundedSet of any capacity from one on
InitSet ==
    /\ InitEngine
    /\ \E max_size \in 1 .. MaxSetSize : tokens = BoundedSet(max_size)
    /\ inserted = << >>

\* State::new with any --max-points and --default-points
InitPoints ==
    /\ InitFields
    /\ tokens = BoundedSet(MAX_TOKENS)
    /\ inserted = << >>
    /\ \E global_max \in 0 .. MaxGlobalPoints, default_points \in 0 .. MaxAskedPoints :
          last = [op |-> "new", global_max |-> global_max,
                  default_points |-> default_points]

\* the engine: requests, the two expiry workers and the clock
Next ==
    \/ ops < MaxOps /\ \E cred \in Credentials, share \in Shares, dur \in Durations :
                          CreateSession(cred, share, dur)
    \/ ops < MaxOps /\ \E sid \in SessionIds : StopSession(sid)
    \/ ops < MaxOps /\ \E sid \in SessionIds, time \in PostTimes : PostLocation(sid, time)
    \/ ops < MaxOps /\ RemoveExpiredSessionsTask
    \/ ops < MaxOps /\ RemoveExpiredDataTask
    \/ ops < MaxOps /\ Tick

Spec == Init /\ [][Next]_vars

\* the engine with its database: the spawned tasks run, and the process restarts
NextDb ==
    \/ ops < MaxOps /\ \E share \in DbShares, dur \in Durations :
                          CreateSession(<< "alice", "secret" >>, share, dur)
    \/ ops < MaxOps /\ \E sid \in SessionIds : StopSession(sid)
    \/ ops < MaxOps /\ \E sid \in SessionIds : PostLocation(sid, now)
    \/ ops < MaxOps /\ RemoveExpiredSessionsTask
    \/ ops < MaxOps /\ \E task \in db_tasks : DbTaskRun(task)
    \/ ops < MaxOps /\ Restart
    \/ ops < MaxOps /\ Tick

SpecDb == Init /\ [][NextDb]_vars

\* the engine with one subscriber
NextSub ==
    \/ ops < MaxOps /\ \E share \in SubShares :
                          CreateSession(<< "alice", "secret" >>, share, 1)
    \/ ops < MaxOps /\ \E sid \in SessionIds : StopSession(sid)
    \/ ops < MaxOps /\ \E sid \in SessionIds : PostLocation(sid, now)
    \/ ops < MaxOps /\ RemoveExpiredSessionsTask
    \/ ops < MaxOps /\ \E token \in tokens.set, tags \in StreamTags : Stream(token, tags)
    \/ ops < MaxOps /\ SubPoll
    \/ ops < MaxOps /\ Heartbeat
    \/ ops < MaxOps /\ Tick

SpecSub == InitLoggedIn /\ [][NextSub]_vars

\* a subscriber that falls behind the broadcast channel
NextLag ==
    \/ ops < MaxLagOps /\ \E token \in tokens.set : Stream(token, {"a"})
    \/ ops < MaxLagOps /\ SubPoll
    \/ ops < MaxLagOps /\ Heartbeat
    \/ ops < MaxLagOps /\ now < MaxLagTime /\ Tick

SpecLag == InitLoggedIn /\ [][NextLag]_vars

\* the worker has something to do: its sleep (get_sleep_duration) has run out
\* the share id of the runs followed to their end
LiveShares == { Parsed({Pub("a"), Priv("b")}, Options(Some(1), Some(1), TRUE)) }

\* the sleep of remove_expired_sessions_task has ended: get_sleep_duration is not positive
SessionsDue ==
    ~HeapEmpty(session_expirations) /\ HeapPeek(session_expirations)[1] <= now

\* the round of remove_expired_sessions_task that follows the end of its sleep
ExpiryRound == SessionsDue /\ RemoveExpiredSessionsTask

\* the engine and its database, followed until nothing more can happen; the worker
\* always gets to run once its sleep has ended
NextLive ==
    \/ ids_used < MaxLiveIds /\ now < MaxLiveTime /\ \E share \in LiveShares, dur \in Durations :
           CreateSession(<< "alice", "secret" >>, share, dur)
    \/ \E sid \in DOMAIN sessions : StopSession(sid)
    \/ \E task \in db_tasks : DbTaskRun(task)
    \/ restarts < MaxLiveRestarts /\ Restart
    \/ ExpiryRound
    \/ now < MaxLiveTime /\ Tick

SpecLive == Init /\ [][NextLive]_vars /\ WF_vars(ExpiryRound)

\* ------------------------------------------------------------ properties
LastN(seq, n) == SubSeq(seq, Len(seq) - n + 1, Len(seq))

\* C1: a session never holds more than max_points points, and as long as no point
\* of it has expired by age its ring is the last min(k, max_points) of the k points
\* add_location accepted for it, in the order of acceptance
C1_RingIsBoundedFifo ==
    \A s \in DOMAIN sessions :
        /\ Len(sessions[s].locations) <= sessions[s].max_points
        /\ s \notin aged =>
              sessions[s].locations =
                  LastN(accepted[s], Min(Len(accepted[s]), sessions[s].max_points))

\* a ring of two points has taken a third and evicted the oldest
C1_Evicted ==
    \E s \in DOMAIN sessions :
        /\ s \notin aged
        /\ sessions[s].max_points = 2
        /\ Len(accepted[s]) = 3
        /\ last.op = "post" /\ last.result = 200

TagNames == {default_tag, "a", "b"}
PublicSessions(T) == {s \in DOMAIN sessions : T \in tags_public(sessions[s].tags)}

C3_FetchIdsFresh ==
    /\ \A i, j \in 1 .. Len(issued) : i < j => issued[i].fetch_id < issued[j].fetch_id
    /\ \A i \in 1 .. Len(issued) : \A r \in restored : issued[i].fetch_id > r
    /\ \A s, u \in DOMAIN sessions :
          s # u => sessions[s].fetch_id # sessions[u].fetch_id

\* a restarted process restored a session and issued two fetch ids
C3_IssuedAfterRestore == restored # {} /\ Len(issued) = 2

\* the tags of the session a fetch id was issued for
OwnerTags(f) == issued[CHOOSE i \in 1 .. Len(issued) : issued[i].fetch_id = f].tags

\* the changes of the items, in order
RECURSIVE ChangesOf(_)
ChangesOf(items) ==
    IF items = << >> THEN << >>
    ELSE (IF Head(items).ok THEN Head(items).event.updates ELSE << >>)
         \o ChangesOf(Tail(items))

FedItems == [i \in 1 .. Len(fed) |-> fed[i].item]

\* the coalescer yields no change the filter stage did not pass
OutFromFed == Range(ChangesOf(out)) \subseteq Range(ChangesOf(FedItems))

\* C4: whatever passes the filter of a subscription carries no AddFetch entry, no Add
\* entry and no ExpireFetch for a fetch id whose session has no tag in the tags the
\* subscription was subscribed to at that moment; the coalescer adds nothing to it
C4_NoForeignEntry ==
    /\ OutFromFed
    /\ \A i \in 1 .. Len(fed) :
          \A j \in 1 .. Len(fed[i].item.event.updates) :
              LET change == fed[i].item.event.updates[j].change
                  subscribed == fed[i].filter_tags
              IN /\ change.kind = "AddFetch" =>
                       \A f \in DOMAIN change.fetches : OwnerTags(f) \cap subscribed # {}
                 /\ change.kind = "Add" =>
                       \A f \in DOMAIN change.points : OwnerTags(f) \cap subscribed # {}
                 /\ change.kind = "ExpireFetch" =>
                       OwnerTags(change.fetch_id) \cap subscribed # {}

\* the filter has handled the AddFetch of a session the subscription shares no tag with
C4_ForeignFiltered ==
    \E i \in 1 .. Len(fed) :
        /\ ~fed[i].snapshot
        /\ ~fed[i].context.is_heartbeat
        /\ fed[i].context.tags \cap fed[i].filter_tags = {}
        /\ fed[i].item.event.updates[1].change.kind = "AddFetch"
        /\ fed[i].item.event.updates[1].change.fetches = EmptyFn

\* C5: an update that is no heartbeat and whose context tags are disjoint from the
\* subscribed tags is dropped whole: the filter passes nothing of it on
C5_ForeignUpdateDropped ==
    \A i \in 1 .. Len(fed) :
        (~fed[i].snapshot /\ ~fed[i].context.is_heartbeat) =>
            fed[i].context.tags \cap fed[i].filter_tags # {}

\* C6: every Fetch descriptor a subscriber is given, in the snapshot and in a live
\* AddFetch, has as its tags the session's tags intersected with the subscribed tags
C6_FetchTagsIntersected ==
    /\ OutFromFed
    /\ \A i \in 1 .. Len(fed) :
          \A j \in 1 .. Len(fed[i].item.event.updates) :
              LET change == fed[i].item.event.updates[j].change
              IN change.kind = "AddFetch" =>
                    \A f \in DOMAIN change.fetches :
                        change.fetches[f].tags = OwnerTags(f) \cap fed[i].filter_tags

\* a live AddFetch was delivered with fewer tags than the session has
C6_TagsTrimmed ==
    \E i \in 1 .. Len(fed) :
        /\ ~fed[i].snapshot
        /\ \E j \in 1 .. Len(fed[i].item.event.updates) :
              LET change == fed[i].item.event.updates[j].change
              IN /\ change.kind = "AddFetch"
                 /\ \E f \in DOMAIN change.fetches :
                       change.fetches[f].tags # OwnerTags(f)

IsPrefix(p, q) == Len(p) <= Len(q) /\ SubSeq(q, 1, Len(p)) = p

\* C7: the changes the coalescer has yielded are, in order and each once, the changes
\* of the events fed into it, up to the last flush
C7_EachChangeOnce == IsPrefix(ChangesOf(out), ChangesOf(FedItems))

\* C8: every Lagged error the receiver of a subscription got shows up in the output
\* of the subscription as an error item
C8_LagReported ==
    sub.lag_errors = Cardinality({k \in 1 .. Len(out) : ~out[k].ok})

\* C9: a stop request for a live session that was created with no_stop leaves the
\* session in place, only refusing further data, and sends no ExpireFetch
C9_NoStopSurvivesStop ==
    (/\ last.op = "stop"
     /\ last.session # None
     /\ TheValue(last.session).no_stop
     /\ TheValue(last.session).expires_at > now)
    => /\ last.session_id \in DOMAIN sessions
       /\ sessions[last.session_id].reject_data
       /\ ExpiredIn(sent) = << >>

\* the sessions a step removed
Removed == DOMAIN sessions \ DOMAIN sessions'
\* the sessions a step added
Added == DOMAIN sessions' \ DOMAIN sessions

CountOf(pt, T) == IF T \in DOMAIN pt THEN pt[T] ELSE 0

\* what one step does about the sessions it removes
C10_RemovalStep ==
    /\ \A s \in Removed :
          Cardinality({k \in 1 .. Len(sent') :
                          /\ sent'[k].changes = << ExpireFetch(sessions[s].fetch_id) >>
                          /\ sent'[k].context = Context(as_tags(sessions[s].tags), FALSE)}) = 1
    /\ Len(ExpiredIn(sent')) = Cardinality(Removed)
    /\ \A T \in TagNames \cup DOMAIN public_tags \cup DOMAIN public_tags' :
          CountOf(public_tags', T) =
              CountOf(public_tags, T)
              - Cardinality({s \in Removed : T \in tags_public(sessions[s].tags)})
              + Cardinality({s \in Added : T \in tags_public(sessions'[s].tags)})

\* C10: a step that removes sessions sends, for each of them, exactly one ExpireFetch
\* with its fetch id under the session's tags, and sends no other ExpireFetch; it takes
\* each public tag of a removed session down by one; and over the life of a process no
\* fetch id is expired twice
C10_OneExpireFetchPerRemoval ==
    /\ [][C10_RemovalStep]_vars
    /\ [](\A f \in DOMAIN expire_count : expire_count[f] = 1)

\* a post to a session past its expiry has removed it
C10_RemovedByPost == last.op = "post" /\ last.result = 410 /\ Len(ExpiredIn(sent)) = 1

\* C11: a session whose expires_at has passed is eventually out of the session store,
\* whether it was created by this process or restored from the database; and a step
\* of a running process that takes sessions out sends an ExpireFetch for each
C11_ExpiredEventuallyRemoved ==
    /\ \A sid \in 1 .. MaxLiveIds :
          (sid \in DOMAIN sessions /\ sessions[sid].expires_at <= now)
              ~> (sid \notin DOMAIN sessions)
    /\ [][last'.op # "restart" => C10_RemovalStep]_vars

\* the worker has removed a restored session after its expiry
C11_RestoredExpired ==
    /\ last.op = "expire_sessions"
    /\ \E k \in 1 .. Len(sent) :
          /\ sent[k].changes[1].kind = "ExpireFetch"
          /\ sent[k].changes[1].fetch_id \in restored

\* the point rings of the sessions that a step keeps are the rings they had
RingsKept ==
    \A s \in DOMAIN sessions \cap DOMAIN sessions' :
        sessions'[s].locations = sessions[s].locations

\* the step is a post to the session sid, which is in the map and takes data
PostTo(sid) ==
    /\ last'.op = "post"
    /\ last'.session_id = sid
    /\ sid \in DOMAIN sessions
    /\ ~sessions[sid].reject_data

\* C12: a post to a session that is in the map, takes data and has expires_at < now is
\* answered SessionExpired (410), takes the session out of the map in the same step with
\* one ExpireFetch as the only update sent, appends no point to any session and sends no
\* Add; so a post that appends a point finds expires_at >= now
C12_ExpiredPostRemoves ==
    [][\A sid \in SessionIds :
          PostTo(sid) =>
              IF sessions[sid].expires_at < now
              THEN /\ last'.result = 410
                   /\ sid \notin DOMAIN sessions'
                   /\ Len(sent') = 1
                   /\ sent'[1].changes = << ExpireFetch(sessions[sid].fetch_id) >>
                   /\ RingsKept
              ELSE /\ last'.result = 200
                   /\ sid \in DOMAIN sessions'
                   /\ Len(sessions'[sid].locations) >= 1]_vars

\* a post was refused as expired and its session removed while another session stayed
C12_ExpiredPostRefused ==
    /\ last.op = "post"
    /\ last.result = 410
    /\ last.session_id \notin DOMAIN sessions
    /\ sent # << >>
    /\ DOMAIN sessions # {}

\* C13: a post to a session id that is not in the map, or whose session has reject_data
\* set, is answered NoSuchSession (404) and changes nothing: the sessions and their
\* rings, both expiry heaps, the public tags, the fetch id counter and the database
\* tasks are as before, and no update is sent
C13_UnknownPostChangesNothing ==
    [][(/\ last'.op = "post"
        /\ \/ last'.session_id \notin DOMAIN sessions
           \/ sessions[last'.session_id].reject_data)
       => /\ last'.result = 404
          /\ sent' = << >>
          /\ UNCHANGED << sessions, session_expirations, data_expirations, public_tags,
                          next_fetch_id, db_tasks, sub >>]_vars

\* a post to an id that is not in the map was refused while a session holds a point
C13_UnknownPostRefused ==
    /\ last.op = "post"
    /\ last.result = 404
    /\ last.session_id \notin DOMAIN sessions
    /\ \E s \in DOMAIN sessions : Len(sessions[s].locations) >= 1

\* the sessions with a tag among tags
Matching(tags) == {s \in DOMAIN sessions : as_tags(sessions[s].tags) \cap tags # {}}

\* snap is one update whose changes are Reset, AddFetch and Add, the last two holding
\* exactly the sessions that have a tag among tags, Add with the ring of each
IsSnapshotFor(snap, tags) ==
    /\ Len(snap.updates) = 3
    /\ snap.updates[1].change = Reset
    /\ snap.updates[2].change.kind = "AddFetch"
    /\ snap.updates[3].change.kind = "Add"
    /\ DOMAIN snap.updates[2].change.fetches = {sessions[s].fetch_id : s \in Matching(tags)}
    /\ DOMAIN snap.updates[3].change.points = {sessions[s].fetch_id : s \in Matching(tags)}
    /\ \A s \in Matching(tags) :
          /\ snap.updates[2].change.fetches[sessions[s].fetch_id].tags =
                 as_tags(sessions[s].tags) \cap tags
          /\ snap.updates[3].change.points[sessions[s].fetch_id] = sessions[s].locations

\* C14: the snapshot built when a subscription is made is one update with the changes
\* Reset, AddFetch, Add in that order, restricted to the sessions with a tag among the
\* subscriber's, Add holding each ring; the subscriber's first poll yields it, whatever
\* is or is not queued on the broadcast channel, and nothing is yielded before it
C14_SnapshotFirst ==
    /\ [][/\ (last'.op = "stream" /\ last'.result = 200) =>
                /\ sub'.first_stream # None
                /\ IsSnapshotFor(TheValue(sub'.first_stream), sub'.subscribed_tags)
          /\ (last'.op = "poll" /\ sub.first_stream # None) =>
                /\ out = << >>
                /\ Len(out') = 1
                /\ out'[1].ok
                /\ out'[1].event.updates = TheValue(sub.first_stream).updates]_vars
    /\ [](/\ sub.first_stream # None => (out = << >> /\ fed = << >>)
          /\ \A i \in 1 .. Len(fed) : fed[i].snapshot <=> i = 1)

\* the first poll has yielded a snapshot holding a point while a live update was queued
C14_SnapshotBeforeQueued ==
    /\ last.op = "poll"
    /\ Len(out) = 1
    /\ sub.rx # << >>
    /\ \E f \in DOMAIN out[1].event.updates[3].change.points :
          out[1].event.updates[3].change.points[f] # << >>

\* a subscription made at any point among creates, posts, stops and expiries, and read
NextSnap ==
    \/ ops < MaxSnapOps /\ \E share \in SubShares :
                              CreateSession(<< "alice", "secret" >>, share, 1)
    \/ ops < MaxSnapOps /\ \E sid \in DOMAIN sessions : StopSession(sid)
    \/ ops < MaxSnapOps /\ \E sid \in DOMAIN sessions : PostLocation(sid, now)
    \/ ops < MaxSnapOps /\ SessionsDue /\ RemoveExpiredSessionsTask
    \/ ops < MaxSnapOps /\ \E token \in tokens.set, tags \in SnapTags : Stream(token, tags)
    \/ ops < MaxSnapOps /\ SubPoll
    \/ ops < MaxSnapOps /\ now < MaxSnapTime /\ Tick

SpecSnap == InitLoggedIn /\ [][NextSnap]_vars

\* the values put into a BoundedSet taken by itself
SetValues == 1 .. (MaxSetSize + 1)

\* a BoundedSet taken by itself: any sequence of inserts
NextSet == ops < MaxSetOps /\ \E value \in SetValues : SetInsert(value)

SpecSet == InitSet /\ [][NextSet]_vars

\* a subscriber to every public tag (an empty tag list), with sessions created, fed
\* and stopped behind its back
NextAuto ==
    \/ ops < MaxAutoOps /\ ids_used < MaxAutoIds /\ \E share \in SubShares :
                              CreateSession(<< "alice", "secret" >>, share, 1)
    \/ ops < MaxAutoOps /\ \E sid \in DOMAIN sessions : StopSession(sid)
    \/ ops < MaxAutoOps /\ \E sid \in DOMAIN sessions : PostLocation(sid, now)
    \/ ops < MaxAutoOps /\ \E token \in tokens.set : Stream(token, {})
    \/ ops < MaxAutoOps /\ SubPoll

SpecAuto == InitLoggedIn /\ [][NextAuto]_vars

\* the share id of the runs with a heartbeat every interval
BeatShares == { Parsed({Pub("a"), Priv("b")}, Options(Some(1), None, FALSE)) }

\* the heartbeat is due and there is an interval left in the run
BeatDue == now < MaxBeatTime /\ HeartbeatTurn

\* a subscriber that keeps polling while the heartbeat task sends one heartbeat every
\* update interval; session traffic stops before the last heartbeat
NextBeat ==
    \/ ops < MaxBeatOps /\ now < MaxBeatTime /\ \E share \in BeatShares :
           CreateSession(<< "alice", "secret" >>, share, MaxBeatTime + 1)
    \/ ops < MaxBeatOps /\ now < MaxBeatTime /\ \E sid \in DOMAIN sessions :
           PostLocation(sid, now)
    \/ ops < MaxBeatOps /\ now < MaxBeatTime /\ \E sid \in DOMAIN sessions :
           StopSession(sid)
    \/ \E token \in tokens.set, tags \in SnapTags : Stream(token, tags)
    \/ SubPoll
    \/ BeatDue

SpecBeat == InitLoggedIn /\ [][NextBeat]_vars /\ WF_vars(BeatDue) /\ WF_vars(SubPoll)

\* the share ids of the runs with ageing points: a ring of one point and a ring of two,
\* both with a max_point_age of one tick
AgeShares ==
    { Parsed({Pub("a")}, Options(Some(1), Some(1), FALSE)),
      Parsed({Pub("a")}, Options(Some(2), Some(1), FALSE)) }

\* the sleep of remove_expired_data_task has ended: get_sleep_duration is not positive
DataDue ==
    ~HeapEmpty(data_expirations) /\ HeapPeek(data_expirations)[1] <= now

\* the round of remove_expired_data_task that follows the end of its sleep
DataRound == DataDue /\ RemoveExpiredDataTask

\* the clock of a run with ageing points
AgeTick == now < MaxAgeTime /\ Tick

\* sessions that live through the run, with points that age; the point-expiry worker
\* always gets to run once its sleep has ended, and time goes on
NextAge ==
    \/ ops < MaxAgeOps /\ \E share \in AgeShares :
           CreateSession(<< "alice", "secret" >>, share, MaxAgeTime + 1)
    \/ ops < MaxAgeOps /\ \E sid \in DOMAIN sessions, time \in PostTimes :
           PostLocation(sid, time)
    \/ DataRound
    \/ AgeTick

SpecAge == Init /\ [][NextAge]_vars /\ WF_vars(DataRound) /\ WF_vars(AgeTick)

\* the points: option of a request: absent, or any value from 0
AskedPoints == {None} \cup { Some(n) : n \in 0 .. MaxAskedPoints }

\* sessions created under any configuration of the two point limits
NextPoints == ops < MaxPointsOps /\ \E opt_max_points \in AskedPoints :
                                       AddSessionPoints(opt_max_points)

SpecPoints == InitPoints /\ [][NextPoints]_vars

\* the fields the share ids of the clients are made of: tags with each keyword and
\* without one, every option, whitespace, an empty field, and fields that are refused
ShareIdFields ==
    { << "p", "u", "b", ":", "a" >>,
      << "p", "u", "b", "l", "i", "c", ":", "b" >>,
      << "p", "r", "i", "v", ":", "a" >>,
      << "p", "r", "i", "v", "a", "t", "e", ":", "b", "-", "1" >>,
      << " ", "b", " " >>,
      << "p", " ", "u", "b", ":", "c" >>,
      << >>,
      << "p", "o", "i", "n", "t", "s", ":", "3" >>,
      << "p", "o", "i", "n", "t", "s", ":", "+", "1" >>,
      << "p", "o", "i", "n", "t", "s", ":", "x" >>,
      << "e", "x", "p", "i", "r", "e", ":", "2", "h", "3", "0", "m" >>,
      << "e", "x", "p", "i", "r", "e", ":", "h" >>,
      << "n", "a", "m", "e", ":", "a" >>,
      << "l", "o", "g" >>,
      << "l", "o", "g", ":", "n", "a", "m", "e" >>,
      << "l", "o", "g", ":", "a" >>,
      << "n", "o", "s", "t", "o", "p" >>,
      << "p", "r", "i", "v", ":", "n", "o", "s", "t", "o", "p" >>,
      << "t", "a", "g", ":", "a" >>,
      << "p", "u", "b", ":" >>,
      << "p", "u", "b", ":", "a", ":", "b" >> }

\* the share ids of up to MaxShareFields fields, and a request without a share id
ShareIds ==
    {None} \cup
    UNION { { Some(join(fields, ",")) : fields \in [1 .. n -> ShareIdFields] } :
              n \in 0 .. MaxShareFields }

\* the id utils::generate_id makes for a request without a share id
GeneratedId == << "g", "1" >>

\* a run starts with the share id of a create request
InitShareId ==
    /\ InitFields
    /\ tokens = BoundedSet(MAX_TOKENS)
    /\ inserted = << >>
    /\ \E share_id \in ShareIds : last = [op |-> "new", share_id |-> share_id]

\* handlers::create_session as far as the share id goes: the share id of the request
\* is parsed, and the share id of the response is written from the parsed tags
CreateShareId ==
    /\ last.op = "new"
    /\ Op
    /\ LET parsed == parse_share_id(last.share_id, GeneratedId)
       IN IF ~parsed.ok
          THEN last' = [op |-> "create", result |-> 400,
                        body |-> "The format of share id is not permitted"]
          ELSE \E order \in Orders(parsed.tags) :
                  last' = [op |-> "create", result |-> 200,
                           request |-> last.share_id,
                           tags_aux |-> parsed.tags,
                           options |-> parsed.options,
                           share_id |-> returned_share_id(order)]
    /\ sent' = << >>
    /\ UNCHANGED << now, sessions, session_expirations, data_expirations, public_tags,
                    next_fetch_id, db, db_tasks, ids_used, restarts, tokens, inserted,
                    accepted, aged, restored, issued, expire_count, sub_vars >>

\* the share id a create request returned is parsed again, as the share id of the
\* next create request
ReparseShareId ==
    /\ last.op = "create"
    /\ last.result = 200
    /\ Op
    /\ last' = [op |-> "reparse",
                request |-> last.request,
                tags_aux |-> last.tags_aux,
                options |-> last.options,
                share_id |-> last.share_id,
                reparsed |-> parse_share_id(Some(last.share_id), GeneratedId)]
    /\ sent' = << >>
    /\ UNCHANGED << now, sessions, session_expirations, data_expirations, public_tags,
                    next_fetch_id, db, db_tasks, ids_used, restarts, tokens, inserted,
                    accepted, aged, restored, issued, expire_count, sub_vars >>

\* share ids parsed, written back and parsed again
NextShareId ==
    \/ CreateShareId
    \/ ReparseShareId

SpecShareId == InitShareId /\ [][NextShareId]_vars

\* the finite f64 values up to MaxCoord units
Floats == {k \in -MaxCoord .. MaxCoord : f64_round(k) = k}

\* the latitudes and longitudes the --box-coords of the runs are written with
BoxLats == {-8, 0, 8, 16}
BoxLngs == {0, 4}
\* the longitudes of the posts
PostLngs == {-1, 2, 5}

\* the --box-coords strings: four parts, and one with three
BoxParts ==
    { << lat1, lng1, lat2, lng2 >> :
         lat1 \in BoxLats, lng1 \in BoxLngs, lat2 \in BoxLats, lng2 \in BoxLngs }
    \cup { << 0, 0, 8 >> }

\* a run starts with the box the server was started with: none, or what from_str made
\* of --box-coords (a server whose box is refused does not start)
InitBox ==
    /\ InitFields
    /\ tokens = BoundedSet(MAX_TOKENS)
    /\ inserted = << >>
    /\ \/ last = [op |-> "new", started |-> TRUE, box_coords |-> None]
       \/ \E parts \in BoxParts :
             last = [op |-> "new", started |-> from_str(parts).ok,
                     box_coords |-> IF from_str(parts).ok
                                    THEN Some(from_str(parts).value) ELSE None]

\* the wrapping of State::add_location: the coordinates of a post are wrapped into the
\* box, if there is one
WrapLocation(op, latitude, longitude) ==
    /\ Op
    /\ last' = [op |-> op, started |-> TRUE, box_coords |-> last.box_coords,
                latitude |-> latitude, longitude |-> longitude,
                lat |-> IF last.box_coords = None THEN latitude
                        ELSE wrap_latitude(TheValue(last.box_coords), latitude),
                lon |-> IF last.box_coords = None THEN longitude
                        ELSE wrap_longitude(TheValue(last.box_coords), longitude)]
    /\ sent' = << >>
    /\ UNCHANGED << now, sessions, session_expirations, data_expirations, public_tags,
                    next_fetch_id, db, db_tasks, ids_used, restarts, tokens, inserted,
                    accepted, aged, restored, issued, expire_count, sub_vars >>

\* a post with any coordinates
PostCoords ==
    /\ last.op = "new"
    /\ last.started
    /\ \E latitude \in Floats, longitude \in PostLngs :
          WrapLocation("wrap", latitude, longitude)

\* a post with the coordinates the last post was stored with
PostWrapped ==
    /\ last.op = "wrap"
    /\ WrapLocation("rewrap", last.lat, last.lon)

NextBox ==
    \/ PostCoords
    \/ PostWrapped

SpecBox == InitBox /\ [][NextBox]_vars

\* sessions that are created, stopped, posted to and expired by the worker
NextExpiry ==
    \/ ops < MaxExpiryOps /\ \E share \in DbShares, dur \in Durations :
                                 CreateSession(<< "alice", "secret" >>, share, dur)
    \/ ops < MaxExpiryOps /\ \E sid \in DOMAIN sessions : StopSession(sid)
    \/ ops < MaxExpiryOps /\ \E sid \in DOMAIN sessions : PostLocation(sid, now)
    \/ ops < MaxExpiryOps /\ RemoveExpiredSessionsCounted
    \/ ops < MaxExpiryOps /\ Tick

SpecExpiry == Init /\ [][NextExpiry]_vars

\* sessions created while the session-expiry worker goes round its loop
NextWake ==
    \/ ops < MaxWakeOps /\ \E dur \in Durations :
           CreateSession(<< "alice", "secret" >>, Parsed({}, Options(None, None, FALSE)),
                         dur)
    \/ ops < MaxWakeOps /\ WorkerRound
    \/ ops < MaxWakeOps /\ WorkerSelect
    \/ ops < MaxWakeOps /\ WorkerWake
    \/ ops < MaxWakeOps /\ Tick

SpecWake == Init /\ [][NextWake]_vars

\* logins and stream requests with minted, evicted and never minted tokens
NextTok ==
    \/ ops < MaxTokOps /\ \E cred \in Logins : Login(cred)
    \/ ops < MaxTokOps /\ \E token \in TokenIds : Stream(token, {})
    \/ ops < MaxTokOps /\ SubPoll

SpecTok == Init /\ [][NextTok]_vars

\* create and login requests that authenticate, that do not and that fail, beside posts
\* and one subscriber
NextAuth ==
    \/ ops < MaxAuthOps /\ \E cred \in AuthLogins, share \in Shares, dur \in Durations :
                              CreateSession(cred, share, dur)
    \/ ops < MaxAuthOps /\ \E cred \in AuthLogins : Login(cred)
    \/ ops < MaxAuthOps /\ \E sid \in DOMAIN sessions : PostLocation(sid, now)
    \/ ops < MaxAuthOps /\ \E token \in tokens.set : Stream(token, {})
    \/ ops < MaxAuthOps /\ SubPoll

SpecAuth == Init /\ [][NextAuth]_vars

\* what a reader of the stream holds after the change c: the fetch ids it was told of
\* and the points it was sent for each
ViewApply(v, c) ==
    CASE c.kind = "Reset" -> [fetches |-> {}, points |-> EmptyFn]
      [] c.kind = "AddFetch" -> [v EXCEPT !.fetches = @ \cup DOMAIN c.fetches]
      [] c.kind = "Add" ->
            [v EXCEPT !.points =
                [f \in DOMAIN @ \cup DOMAIN c.points |->
                    (IF f \in DOMAIN @ THEN @[f] ELSE << >>)
                    \o (IF f \in DOMAIN c.points THEN c.points[f] ELSE << >>)]]
      [] c.kind = "ExpireFetch" ->
            [fetches |-> v.fetches \ {c.fetch_id},
             points |-> [f \in DOMAIN v.points \ {c.fetch_id} |-> v.points[f]]]
      [] OTHER -> v

RECURSIVE View(_, _)
View(v, changes) ==
    IF changes = << >> THEN v
    ELSE View(ViewApply(v, Head(changes).change), Tail(changes))

IsSuffix(a, b) == Len(a) <= Len(b) /\ a = LastN(b, Len(a))

\* the subscription has read its snapshot and everything broadcast since
Drained ==
    sub.active /\ sub.first_stream = None /\ sub.rx = << >> /\ sub.lagged = 0 /\ fed # << >>

\* C15: however the making of a subscription falls among creates, posts, stops and
\* expiries, the snapshot followed by the updates that pass the subscription's filter
\* gives, once read, exactly the sessions that have one of the subscribed tags, and for
\* each of them a run of consecutive accepted points, none missing and none twice, that
\* ends with the newest and covers the ring the store holds
C15_SnapshotThenLive ==
    Drained =>
        LET v == View([fetches |-> {}, points |-> EmptyFn], ChangesOf(FedItems))
        IN /\ v.fetches = {sessions[s].fetch_id : s \in Matching(sub.subscribed_tags)}
           /\ \A s \in Matching(sub.subscribed_tags) :
                 LET pts == IF sessions[s].fetch_id \in DOMAIN v.points
                            THEN v.points[sessions[s].fetch_id] ELSE << >>
                 IN /\ IsSuffix(pts, accepted[s])
                    /\ IsSuffix(sessions[s].locations, pts)

\* a point accepted before the subscription and one accepted after it have both been read
C15_PointBeforeAndAfter ==
    /\ Drained
    /\ Len(fed) = 2
    /\ \E s \in DOMAIN sessions : Len(accepted[s]) = 2
    /\ \E f \in DOMAIN fed[1].item.event.updates[3].change.points :
          fed[1].item.event.updates[3].change.points[f] # << >>

\* the rows of the table that load_state finds not yet expired
LiveRows == {k \in DOMAIN db : db[k].expires_at > now}

StopOfNoStop(sid, e) ==
    /\ last.op = "stop"
    /\ last.session_id = sid
    /\ last.session # None
    /\ TheValue(last.session).no_stop
    /\ TheValue(last.session).expires_at = e
    /\ now < e

\* C17: once a stop was requested for a no_stop session, a process that is started
\* before the session's expires_at, after every database task of the process before it
\* had run, has the session in memory with reject_data set
C17_RejectDataPersisted ==
    \A sid \in 1 .. MaxLiveIds, e \in 1 .. MaxLiveTime + 2 :
        [](StopOfNoStop(sid, e) =>
              []((last.op = "restart" /\ last.tasks_done /\ now < e)
                    => (sid \in DOMAIN sessions /\ sessions[sid].reject_data)))

\* the elements of a BoundedSet from the oldest to the newest
Rotated(self) ==
    IF Len(self.insertion_order) < self.max_size THEN self.insertion_order
    ELSE SubSeq(self.insertion_order, self.ring_index + 1, Len(self.insertion_order))
         \o SubSeq(self.insertion_order, 1, self.ring_index)

\* a queue of at most n distinct values after the inserts h: a value that is in the
\* queue is left where it is, a new value goes to the end and pushes out the head
RECURSIVE Fifo(_, _)
Fifo(h, n) ==
    IF h = << >> THEN << >>
    ELSE LET q == Fifo(SubSeq(h, 1, Len(h) - 1), n)
             v == h[Len(h)]
         IN IF v \in Range(q) THEN q
            ELSE IF Len(q) = n THEN Append(Tail(q), v)
            ELSE Append(q, v)

\* C18: inserting an element that is in the set changes neither the members nor
\* insertion_order nor ring_index, so that the elements leave in the order in which they
\* entered: the set is at all times the queue in which a reinserted element keeps its place
C18_ReinsertChangesNothing ==
    /\ [][(last'.op = "insert" /\ last'.value \in tokens.set) => tokens' = tokens]_vars
    /\ [](Rotated(tokens) = Fifo(inserted, tokens.max_size))

\* into a full set of two, the older element was inserted again and then a new one, which
\* pushed the reinserted element out
C18_ReinsertedThenEvicted ==
    /\ tokens.max_size = 2
    /\ Len(inserted) = 4
    /\ inserted[3] = inserted[1]
    /\ inserted[2] # inserted[1]
    /\ inserted[1] \notin tokens.set
    /\ tokens.set = {inserted[2], inserted[4]}

\* no value occurs twice in h
Distinct(h) == \A i, j \in 1 .. Len(h) : i # j => h[i] # h[j]

\* C19: a BoundedSet of capacity N >= 1 holds at most N elements, its members are the
\* entries of insertion_order, each once, and ring_index < N; after M pairwise distinct
\* inserts its members are the last min(M, N) values inserted; a value that is not in the
\* set, evicted before or not, enters as the newest; the value inserted last is always a
\* member, so a set of capacity 1 holds exactly that value
C19_LastInsertedSurvive ==
    /\ [](/\ tokens.max_size >= 1
          /\ Cardinality(tokens.set) <= tokens.max_size
          /\ tokens.set = Range(tokens.insertion_order)
          /\ Len(tokens.insertion_order) = Cardinality(tokens.set)
          /\ tokens.ring_index < tokens.max_size
          /\ Distinct(inserted) =>
                tokens.set = Range(LastN(inserted, Min(Len(inserted), tokens.max_size)))
          /\ inserted # << >> => contains(tokens, inserted[Len(inserted)])
          /\ (tokens.max_size = 1 /\ inserted # << >>) =>
                tokens.set = {inserted[Len(inserted)]})
    /\ [][(last'.op = "insert" /\ last'.value \notin tokens.set)
             => /\ Rotated(tokens')[Len(Rotated(tokens'))] = last'.value
                /\ tokens.set \ tokens'.set \subseteq
                       (IF Len(tokens.insertion_order) = tokens.max_size
                        THEN {Rotated(tokens)[1]} ELSE {})]_vars

\* four distinct values have gone into a set of two, whose ring index has gone round
C19_RingWrapped ==
    /\ tokens.max_size = 2
    /\ Len(inserted) = 4
    /\ Distinct(inserted)
    /\ tokens.ring_index = 0
    /\ ~contains(tokens, inserted[2])
    /\ contains(tokens, inserted[3])

\* the tokens that were minted and not pushed out since
LiveTokens == Range(LastN(inserted, Min(Len(inserted), MAX_TOKENS)))

\* what a stream request does: it subscribes exactly when its token is a live one, and
\* otherwise is refused (401) and leaves the subscription state alone
StreamChecksToken ==
    last'.op = "stream" =>
        IF last'.token \in LiveTokens
        THEN last'.result = 200 /\ ~sub.active /\ sub'.active
        ELSE last'.result = 401 /\ sub' = sub

\* what a login that authenticates does: it mints one new token and returns it
LoginMints ==
    (last'.op = "login" /\ authenticate(last'.cred[1], last'.cred[2]) = "Ok(true)") =>
        /\ last'.result = 200
        /\ Len(inserted') = Len(inserted) + 1
        /\ last'.returned = [kind |-> "Ok", value |-> Some(inserted'[Len(inserted')])]
        /\ contains(tokens', inserted'[Len(inserted')])

\* C20 (as the code has it): a stream request subscribes only with a token that a
\* login that authenticated has minted and that was not evicted since; with any other
\* token it is refused and nothing is subscribed; a login that does not authenticate
\* leaves the token set unchanged, is answered 401, and create_token returns None for
\* a wrong password and an error for an unknown user
C20_StreamNeedsLiveToken ==
    [][/\ StreamChecksToken
       /\ LoginMints
       /\ (last'.op = "login" /\ authenticate(last'.cred[1], last'.cred[2]) # "Ok(true)") =>
             /\ last'.result = 401
             /\ UNCHANGED << tokens, inserted >>
             /\ last'.returned =
                    IF authenticate(last'.cred[1], last'.cred[2]) = "Ok(false)"
                    THEN [kind |-> "Ok", value |-> None]
                    ELSE [kind |-> "Err"]]_vars

\* C20 as stated: as above, but every create_token that fails returns None
C20_AsStated ==
    [][/\ StreamChecksToken
       /\ LoginMints
       /\ (last'.op = "login" /\ authenticate(last'.cred[1], last'.cred[2]) # "Ok(true)") =>
             /\ UNCHANGED << tokens, inserted >>
             /\ last'.returned = [kind |-> "Ok", value |-> None]]_vars

\* a stream request with a token that was minted and has been evicted was refused
C20_EvictedTokenRefused ==
    /\ last.op = "stream"
    /\ last.result = 401
    /\ last.token \in Range(inserted)
    /\ last.token \notin tokens.set

\* C21: a create request that does not authenticate is answered 401, and one that
\* authenticates with a share id the parser rejects is answered 400; either leaves the
\* sessions, the fetch id counter, both expiry heaps, the public tag counts, the
\* database and its pending tasks and the subscriber's queue as they were, hands out no
\* session id and sends nothing
C21_FailedCreateChangesNothing ==
    [][\A cred \in AuthLogins, share \in Shares, dur \in Durations :
          (/\ last'.op = "create"
           /\ authenticate(cred[1], cred[2]) # "Ok(true)" \/ ~share.ok
           /\ CreateSession(cred, share, dur))
          => /\ last'.result = IF authenticate(cred[1], cred[2]) # "Ok(true)"
                               THEN 401 ELSE 400
             /\ sent' = << >>
             /\ UNCHANGED << sessions, next_fetch_id, session_expirations, data_expirations,
                             public_tags, db, db_tasks, ids_used, issued, sub >>]_vars

\* a create with a rejected share id was refused while a session is live and a
\* subscriber is listening
C21_BadShareRefused ==
    /\ last.op = "create"
    /\ last.result = 400
    /\ sub.active
    /\ sessions # EmptyFn

\* the value asked for: the points: option, or --default-points without it
Asked == IF last.requested = None THEN last.default_points ELSE TheValue(last.requested)

\* C22: a session created by add_session gets max_points = min(global_max, max(1, asked)),
\* asked being the points: option or else default_points: it is never above global_max,
\* and whenever global_max is at least 1 it is the asked value clamped into
\* 1 .. global_max (1 for points:0, global_max for values above it); under a
\* global_max of 0 it is 0
C22_MaxPointsClamped ==
    last.op = "add_session"
    => /\ last.max_points <= last.global_max
       /\ last.global_max >= 1
          => /\ 1 <= last.max_points
             /\ last.max_points = IF Asked < 1 THEN 1
                                  ELSE IF Asked > last.global_max THEN last.global_max
                                  ELSE Asked
       /\ last.global_max = 0 => last.max_points = 0

\* C22 as stated: 1 <= max_points <= global_max under every global_max
C22_AsStated ==
    last.op = "add_session"
    => /\ 1 <= last.max_points
       /\ last.max_points <= last.global_max

\* points:0 was asked under a global_max above 1 and the session got max_points 1
C22_ZeroAsked ==
    /\ last.op = "add_session"
    /\ last.requested = Some(0)
    /\ last.global_max > 1
    /\ last.max_points = 1

\* the public sets of the AddFetch changes of the update msg
PublicOf(msg) ==
    UNION {msg.changes[i].public :
              i \in {j \in 1 .. Len(msg.changes) : msg.changes[j].kind = "AddFetch"}}

\* this step the subscriber takes the oldest message of its queue
PolledFromQueue ==
    /\ last'.op = "poll"
    /\ sub.active
    /\ sub.first_stream = None
    /\ sub.lagged = 0
    /\ sub.rx # << >>
    /\ sub'.rx = Tail(sub.rx)

\* the change c of a message comes out of the filter as d under the tags subscribed
PassedAs(c, d, subscribed) ==
    /\ d.kind = c.kind
    /\ c.kind = "AddFetch"
       => /\ d.public = c.public
          /\ DOMAIN d.fetches = DOMAIN c.fetches
          /\ \A f \in DOMAIN c.fetches :
                /\ d.fetches[f].tags = c.fetches[f].tags \cap subscribed
                /\ c.public \subseteq d.fetches[f].tags
    /\ c.kind = "Add" => d.points = c.points
    /\ c.kind = "ExpireFetch" => d.fetch_id = c.fetch_id

\* C23: a subscriber that connected with an empty tag list never loses a subscribed
\* tag; when it takes an AddFetch from its queue the public tags of that AddFetch are
\* in its subscribed tags before the filter runs, so the AddFetch of a session with a
\* public tag g comes through with the new fetch entry (tags containing g) and with
\* public containing g; and every update whose session has a tag subscribed by then
\* (every later Add and the ExpireFetch of that session) comes through with its points
\* and its fetch id
C23_AutoSubscribeDelivers ==
    [][/\ (sub.active /\ sub'.active /\ sub.auto_subscribe)
          => sub.subscribed_tags \subseteq sub'.subscribed_tags
       /\ (sub.auto_subscribe /\ PolledFromQueue)
          => LET msg == Head(sub.rx)
                 subscribed == sub'.subscribed_tags
             IN /\ subscribed = sub.subscribed_tags \cup PublicOf(msg)
                /\ (PublicOf(msg) # {} \/ msg.context.tags \cap subscribed # {})
                   => /\ Len(fed') = Len(fed) + 1
                      /\ LET event == fed'[Len(fed')].item.event
                         IN /\ Len(event.updates) = Len(msg.changes)
                            /\ \A i \in 1 .. Len(msg.changes) :
                                  PassedAs(msg.changes[i], event.updates[i].change,
                                           subscribed)]_vars

\* the subscriber to every public tag was told of a session with a public tag it had
\* not subscribed when it connected, then of a point of it, then of its end
C23_ToldOfNewPublicTag ==
    /\ sub.auto_subscribe
    /\ \E i, j, k \in DOMAIN fed : \E f \in 1 .. next_fetch_id :
          /\ i < j /\ j < k
          /\ "a" \notin fed[1].filter_tags
          /\ ~fed[i].snapshot
          /\ \E u \in DOMAIN fed[i].item.event.updates :
                LET c == fed[i].item.event.updates[u].change
                IN /\ c.kind = "AddFetch"
                   /\ f \in DOMAIN c.fetches
                   /\ "a" \in c.fetches[f].tags
                   /\ "a" \in c.public
          /\ \E u \in DOMAIN fed[j].item.event.updates :
                LET c == fed[j].item.event.updates[u].change
                IN /\ c.kind = "Add"
                   /\ f \in DOMAIN c.points
                   /\ c.points[f] # << >>
          /\ \E u \in DOMAIN fed[k].item.event.updates :
                LET c == fed[k].item.event.updates[u].change
                IN c.kind = "ExpireFetch" /\ c.fetch_id = f

\* C24: a heartbeat (no changes, is_heartbeat set) that a subscriber takes from its
\* queue is passed on by the filter whatever the subscriber's tags are, as an event
\* with the heartbeat's meta and no changes
C24_HeartbeatPasses ==
    [][(PolledFromQueue /\ Head(sub.rx).context.is_heartbeat)
       => /\ Head(sub.rx).changes = << >>
          /\ Len(fed') = Len(fed) + 1
          /\ fed'[Len(fed')].item.ok
          /\ fed'[Len(fed')].item.event.meta = Head(sub.rx).meta
          /\ fed'[Len(fed')].item.event.updates = << >>
          /\ fed'[Len(fed')].context.is_heartbeat]_vars

\* a heartbeat got through the filter of a subscriber to the tag b alone, which no
\* session has
C24_HeartbeatToForeignTags ==
    /\ sub.subscribed_tags = {"b"}
    /\ sessions = EmptyFn
    /\ \E i \in DOMAIN fed : ~fed[i].snapshot /\ fed[i].context.is_heartbeat

\* the changes of the first n events the filter passed to the coalescer
FedUpTo(n) == ChangesOf(SubSeq(FedItems, 1, n))

\* the changes of the first n events have all been yielded, in order (the snapshot may
\* have been yielded once more before them)
Yielded(n) ==
    LET yielded == ChangesOf(out)
        snapshot == Len(fed[1].item.event.updates)
    IN \/ IsPrefix(FedUpTo(n), yielded)
       \/ IsPrefix(FedUpTo(n), SubSeq(yielded, snapshot + 1, Len(yielded)))

\* C25: with a heartbeat sent every update interval and a subscriber that keeps
\* polling, every change the filter passes to the coalescer is eventually yielded: none
\* stays in accum for ever, even after the session traffic has stopped (from any moment
\* on there comes a moment at which the changes of every event passed so far have been
\* yielded)
C25_BufferedEventuallyYielded == []<>(fed # << >> => Yielded(Len(fed)))

\* a point that was posted after the snapshot went into accum and was yielded when a
\* heartbeat came, with no session traffic after it
C25_FlushedByHeartbeat ==
    /\ last.op = "poll"
    /\ Len(out) >= 2
    /\ fed[Len(fed)].context.is_heartbeat
    /\ \E n \in 2 .. Len(fed) - 1 :
          /\ \A m \in n + 1 .. Len(fed) : fed[m].context.is_heartbeat
          /\ \E u \in DOMAIN fed[n].item.event.updates :
                LET c == fed[n].item.event.updates[u]
                IN /\ c.change.kind = "Add"
                   /\ \E f \in DOMAIN c.change.points : c.change.points[f] # << >>
                   /\ \E v \in DOMAIN out[Len(out)].event.updates :
                         out[Len(out)].event.updates[v] = c

\* the changes of the output update o that follow its copy of the snapshot, if it
\* begins with one (Reset, AddFetch, Add)
LiveChanges(o) ==
    IF o.event.updates # << >> /\ o.event.updates[1].change.kind = "Reset"
    THEN SubSeq(o.event.updates, 4, Len(o.event.updates))
    ELSE o.event.updates

\* the places in the changes where an Add holds points of the fetch id f
AddsOf(changes, f) ==
    {u \in DOMAIN changes :
        /\ changes[u].change.kind = "Add"
        /\ f \in DOMAIN changes[u].change.points
        /\ changes[u].change.points[f] # << >>}

\* C26: the posts to one session that a matching subscriber receives within one window
\* come out in a single update with exactly one Add change for that session, which
\* holds all their points: no output update holds two Add changes with points of the
\* same fetch id
C26_OneAddPerWindow ==
    \A k \in DOMAIN out : out[k].ok =>
        \A f \in 1 .. next_fetch_id : Cardinality(AddsOf(LiveChanges(out[k]), f)) <= 1

\* a live session with a max_point_age stores a point whose age limit has passed
OverduePoint ==
    \E sid \in DOMAIN sessions :
        /\ sessions[sid].max_point_age # None
        /\ \E i \in DOMAIN sessions[sid].locations :
              sessions[sid].locations[i].time + TheValue(sessions[sid].max_point_age) < now

\* C27: with a point-expiry worker that always gets to run when its sleep has ended and
\* a clock that goes on, a point stored by a live session with a max_point_age does not
\* stay once its time + max_point_age has passed: it is eventually gone from the ring
C27_OverdueEventuallyDropped == OverduePoint ~> ~OverduePoint

\* the session b is the session a but for its points and its added_to_expiration
SameButPoints(a, b) ==
    [a EXCEPT !.locations = << >>, !.added_to_expiration = FALSE]
        = [b EXCEPT !.locations = << >>, !.added_to_expiration = FALSE]

\* this step leaves the session set, the public tag counts, the session-expiry heap,
\* the fetch id counter, the database and its pending tasks, and everything of every
\* session but its points and its added_to_expiration
OnlyPointsChange ==
    /\ DOMAIN sessions' = DOMAIN sessions
    /\ \A s \in DOMAIN sessions : SameButPoints(sessions[s], sessions'[s])
    /\ UNCHANGED << public_tags, session_expirations, next_fetch_id, db, db_tasks >>

\* C28: a round of the point-expiry worker broadcasts nothing and only drops points
\* from the front of rings; a post that evicts the oldest point of a full ring broadcasts
\* the Add of the new point and nothing about the evicted one, and changes only that
\* session's ring; both leave the session set, the other fields of every session, the
\* public tag counts, the session-expiry heap and the database as they were
C28_PointExpiryIsInternal ==
    [][/\ last'.op = "expire_data"
          => /\ sent' = << >>
             /\ sub' = sub
             /\ OnlyPointsChange
             /\ \A s \in DOMAIN sessions :
                   IsSuffix(sessions'[s].locations, sessions[s].locations)
       /\ (/\ last'.op = "post"
           /\ last'.result = 200
           /\ Len(sessions[last'.session_id].locations)
                  = sessions[last'.session_id].max_points)
          => LET sid == last'.session_id
                 new_location == sessions'[sid].locations[Len(sessions'[sid].locations)]
             IN /\ OnlyPointsChange
                /\ \A s \in DOMAIN sessions \ {sid} : sessions'[s] = sessions[s]
                /\ sessions'[sid].locations
                      = Append(Tail(sessions[sid].locations), new_location)
                /\ Len(sent') = 1
                /\ sent'[1].changes
                      = << Add(sessions[sid].fetch_id :> << new_location >>) >>]_vars

\* the worker has dropped the only point of a ring from which a post had evicted
\* another point before
C28_EvictedThenAged ==
    /\ last.op = "expire_data"
    /\ \E s \in aged :
          /\ s \in DOMAIN sessions
          /\ sessions[s].max_points = 1
          /\ Len(accepted[s]) = 2
          /\ sessions[s].locations = << >>

\* the requests that do not authenticate: a wrong password, an unknown user, and a
\* stored hash that bcrypt cannot read
Refused == {cred \in AuthLogins : authenticate(cred[1], cred[2]) # "Ok(true)"}

\* what the caller of the last request was answered
Response(l) == [result |-> l.result, body |-> l.body]

\* nothing of the state changes in this step: sessions, heaps, counters, public tags,
\* tokens, database, subscriber
StateUnchanged ==
    UNCHANGED << now, sessions, session_expirations, data_expirations, public_tags,
                 next_fetch_id, db, db_tasks, ids_used, restarts, tokens, inserted, sub >>

\* C29: a create request and a login request by an unknown user, by a known user with
\* a wrong password and by a user whose stored hash cannot be verified are all answered
\* alike (create: 401 with an empty body; login: 401 "Invalid credentials."), and all
\* leave the state as it was
C29_RefusalsAlike ==
    [][\A cred \in Refused :
          /\ (last'.op = "login" /\ Login(cred))
             => /\ Response(last') = [result |-> 401, body |-> "Invalid credentials."]
                /\ sent' = << >>
                /\ StateUnchanged
          /\ \A share \in Shares, dur \in Durations :
                (last'.op = "create" /\ CreateSession(cred, share, dur))
                => /\ Response(last') = [result |-> 401, body |-> ""]
                   /\ sent' = << >>
                   /\ StateUnchanged]_vars

\* a login that hit a verification error was refused while a token and a session are live
C29_ErrorRefused ==
    /\ last.op = "login"
    /\ last.result = 401
    /\ last.returned = [kind |-> "Err"]
    /\ last.cred[1] \in DOMAIN users
    /\ tokens.set # {}
    /\ sessions # EmptyFn

\* the last step parsed again the share id that a create request returned
Reparsed == last.op = "reparse"

\* the tags come back: the returned share id parses, to the tags of the request
TagsComeBack == Reparsed => last.reparsed.ok /\ last.reparsed.tags = last.tags_aux

\* C30 (as stated): the share id that create_session returns for an accepted share id
\* parses to the same tags and to the same options as the share id of the request
C30_ShareIdRoundTrip ==
    /\ TagsComeBack
    /\ Reparsed => last.reparsed.options = last.options

\* the last step wrapped a latitude into the box of the server
WrappedLat == last.op \in {"wrap", "rewrap"} /\ last.box_coords # None

\* the latitude range of the box
LatMin == TheValue(last.box_coords).lat1
LatMax == TheValue(last.box_coords).lat2

\* C31 (as stated): a wrapped latitude is in [min, max) of the box, a latitude that is
\* already in [min, max) is stored as it is, and wrapping a wrapped latitude again
\* gives the same latitude
C31_WrapInBoxIdempotent ==
    WrappedLat =>
        /\ LatMin < LatMax
        /\ LatMin <= last.lat /\ last.lat < LatMax
        /\ (LatMin <= last.latitude /\ last.latitude < LatMax)
              => last.lat = last.latitude
        /\ last.op = "rewrap" => last.lat = last.latitude

\* the count of a tag in the public tag counts
PublicCount(pt, T) == IF T \in DOMAIN pt THEN pt[T] ELSE 0

Arrived == Len(fed') = Len(fed) + 1 /\ fed'[Len(fed')].item.ok

\* the event that arrived
ArrivedEvent == fed'[Len(fed')].item.event

\* the event that arrived is within the window that t_prev opened
InWindow ==
    /\ sub.t_prev # None
    /\ ArrivedEvent.meta.server_time - TheValue(sub.t_prev) < update_interval

\* the window rule for the event that arrived: within the window it is appended to
\* accum and nothing is yielded; otherwise accum, if there is one, is yielded stamped
\* with the current time, and the event is the new accum and opens the next window
WindowRule ==
    IF InWindow
    THEN /\ out' = out
         /\ sub'.accum = IF sub.accum = None THEN Some(ArrivedEvent)
                          ELSE Some(ingest(TheValue(sub.accum), ArrivedEvent))
    ELSE /\ out' = out \o (IF sub.accum = None THEN << >>
                            ELSE << [ok |-> TRUE,
                                     event |-> [TheValue(sub.accum) EXCEPT
                                                   !.meta.server_time = now]] >>)
         /\ sub'.accum = Some(ArrivedEvent)
         /\ sub'.t_prev = Some(ArrivedEvent.meta.server_time)

\* C33 (as stated): every event that arrives at the coalescer is handled by the
\* window rule
C33_WindowRule == [][Arrived => WindowRule]_vars

\* the window rule holds for every event but the first of a connection
WindowRuleAfterFirst == [][Arrived /\ ~sub.first => WindowRule]_vars

\* what is in accum was opened at t_prev
AccumOpenedAtTPrev ==
    sub.accum # None => sub.t_prev = Some(TheValue(sub.accum).meta.server_time)

\* C34 (as stated): no update that the coalescer yields with session changes in it
\* carries the meta of a heartbeat (an interval other than zero)
C34_HeartbeatsNotMerged ==
    \A i \in 1 .. Len(out) :
       (out[i].ok /\ out[i].event.updates # << >>)
          => out[i].event.meta.interval = 0

\* the sessions that this step removed
RemovedNow == DOMAIN sessions \ DOMAIN sessions'

\* the heap entries that this step popped
PoppedNow == BagToSet(session_expirations (-) session_expirations')

\* C35: a round of the session-expiry worker removes only sessions that exist and
\* whose expires_at is not in the future, and changes no other session; every entry it
\* pops is due; it sends one ExpireFetch per session it removes and nothing else; a
\* round that pops only entries of sessions that are gone changes the heap and nothing
\* else: no update, no public tag count, no database task
C35_WorkerRemovesOnlyDue ==
    [][last'.op = "expire_sessions" =>
          /\ \A sid \in RemovedNow : sessions[sid].expires_at <= now
          /\ \A sid \in DOMAIN sessions' : sid \in DOMAIN sessions
                                             /\ sessions'[sid] = sessions[sid]
          /\ \A sid \in DOMAIN sessions' : sessions'[sid].expires_at > now
          /\ \A e \in PoppedNow : e[1] <= now
          /\ session_expirations' \sqsubseteq session_expirations
          /\ Len(sent') = Cardinality(RemovedNow)
          /\ \A i \in 1 .. Len(sent') :
                \E sid \in RemovedNow :
                   sent'[i].changes = << ExpireFetch(sessions[sid].fetch_id) >>
          /\ RemovedNow = {} =>
                UNCHANGED << sessions, public_tags, data_expirations, next_fetch_id,
                             db, db_tasks, sub >>]_vars

\* the last round popped the entry of a session that had been stopped before, removed
\* nothing and sent nothing, while another session is live
C35_StalePopped ==
    /\ last.op = "expire_sessions"
    /\ last.popped = 1
    /\ last.removed = 0
    /\ sessions # EmptyFn
    /\ sent = << >>

\* the worker is asleep in select! and nothing is about to wake it
Asleep == worker.pc = "waiting" /\ ~Woken

\* C36 (as stated): the worker never sleeps past the instant of the earliest entry of
\* the session-expiry heap
C36_NoLostWakeup ==
    ~(/\ Asleep
      /\ ~HeapEmpty(session_expirations)
      /\ HeapPeek(session_expirations)[1] < now)

\* the sessions whose points age and that hold a point
Ageing == {s \in DOMAIN sessions :
              sessions[s].max_point_age # None /\ sessions[s].locations # << >>}

\* the front point of the session is enrolled: the flag is set and the point-expiry
\* heap has an entry for the session at front.time + max_point_age
FrontEnrolled(s) ==
    /\ sessions[s].added_to_expiration
    /\ << Head(sessions[s].locations).time + TheValue(sessions[s].max_point_age), s >>
          \in BagToSet(data_expirations)

\* C37 (as stated): after every step the front point of every session whose points
\* age is enrolled in the point-expiry heap
C37_FrontAlwaysEnrolled == \A s \in Ageing : FrontEnrolled(s)

\* the flag is never set without a point to enrol, and a step that is not a round of
\* the point-expiry worker leaves the front of every ageing session enrolled
EnrolledByRequests ==
    [][last'.op # "expire_data" =>
          \A s \in DOMAIN sessions' :
             (/\ sessions'[s].max_point_age # None
              /\ sessions'[s].locations # << >>
              /\ s \in DOMAIN sessions => (s \in Ageing => FrontEnrolled(s)))
             => /\ sessions'[s].added_to_expiration
                /\ << Head(sessions'[s].locations).time
                          + TheValue(sessions'[s].max_point_age), s >>
                      \in BagToSet(data_expirations')]_vars

\* C38 (as stated): in a process that was not restarted, once every spawned insert and
\* delete task has run, the sessions table holds exactly the sessions in memory
C38_PersistenceConverges ==
    (restarts = 0 /\ db_tasks = {}) => DOMAIN db = DOMAIN sessions

\* the changes of a sequence of updates, in the order in which they were sent
RECURSIVE Changes(_)
Changes(msgs) ==
    IF msgs = << >> THEN << >> ELSE Head(msgs).changes \o Changes(Tail(msgs))

\* the change c is about the fetch f
Mentions(c, f) ==
    CASE c.kind = "AddFetch" -> f \in DOMAIN c.fetches
      [] c.kind = "Add" -> f \in DOMAIN c.points
      [] c.kind = "ExpireFetch" -> c.fetch_id = f
      [] OTHER -> FALSE

\* where a fetch stands after the updates sent so far: "unseen" before its AddFetch,
\* "open" after it, "closed" after its ExpireFetch
PhaseOf(f) ==
    IF f \in DOMAIN expire_count /\ expire_count[f] > 0 THEN "closed"
    ELSE IF \E i \in 1 .. Len(issued) : issued[i].fetch_id = f THEN "open"
    ELSE "unseen"

\* the phase after the changes cs, or "broken" when one of them comes out of turn
RECURSIVE PhaseAfter(_, _, _)
PhaseAfter(cs, f, p) ==
    IF cs = << >> \/ p = "broken" THEN p
    ELSE IF ~Mentions(Head(cs), f) THEN PhaseAfter(Tail(cs), f, p)
    ELSE PhaseAfter(Tail(cs), f,
             CASE Head(cs).kind = "AddFetch" /\ p = "unseen" -> "open"
               [] Head(cs).kind = "Add" /\ p = "open" -> "open"
               [] Head(cs).kind = "ExpireFetch" /\ p = "open" -> "closed"
               [] OTHER -> "broken")

\* the Add changes of a sequence of changes
AddChanges(cs) == SelectSeq(cs, LAMBDA c : c.kind = "Add")

\* every Add of the step carries the one point whose post was accepted next for its session
AddsInAcceptanceOrder ==
    \A i \in 1 .. Len(AddChanges(Changes(sent'))) :
       LET c == AddChanges(Changes(sent'))[i]
       IN /\ i = 1
          /\ \E s \in DOMAIN sessions \cap DOMAIN sessions' :
                /\ DOMAIN c.points = {sessions[s].fetch_id}
                /\ accepted'[s] = accepted[s] \o c.points[sessions[s].fetch_id]
                /\ Len(c.points[sessions[s].fetch_id]) = 1
                /\ c.points[sessions[s].fetch_id][1].lat = Len(accepted[s]) + 1

\* C39: for every fetch id of this process the updates that mention it are one AddFetch,
\* then Adds, then at most one ExpireFetch, and the Adds of a session come in the order in
\* which its posts were accepted
C39_PerFetchOrder ==
    [][/\ \A f \in 1 .. next_fetch_id' :
             /\ PhaseAfter(Changes(sent'), f, PhaseOf(f)) # "broken"
             /\ PhaseAfter(Changes(sent'), f, PhaseOf(f)) = PhaseOf(f)'
        /\ AddsInAcceptanceOrder]_vars

\* a fetch was announced, two posts were accepted for it, and its ExpireFetch was just sent
C39_FetchRanItsCourse ==
    /\ \E m \in Range(sent) : \E c \in Range(m.changes) :
          /\ c.kind = "ExpireFetch"
          /\ PhaseOf(c.fetch_id) = "closed"
          /\ \E i \in 1 .. Len(issued) : issued[i].fetch_id = c.fetch_id
    /\ last.op = "stop"
    /\ last.session # None
    /\ \E p \in Range(TheValue(last.session).locations) : p.lat = 2

\* the share ids of two sessions that use one tag name, one publicly and one privately
PrivShares ==
    { Parsed({Pub("a")}, Options(None, None, FALSE)),
      Parsed({Priv("a")}, Options(None, None, FALSE)) }

\* sessions with a tag name that is public in one and private in the other, and a
\* subscriber that asks for every public tag or for the tag by name
NextPriv ==
    \/ ops < MaxPrivOps /\ ids_used < MaxPrivIds /\ \E share \in PrivShares :
                              CreateSession(<< "alice", "secret" >>, share, 1)
    \/ ops < MaxPrivOps /\ \E sid \in DOMAIN sessions : StopSession(sid)
    \/ ops < MaxPrivOps /\ \E sid \in DOMAIN sessions : PostLocation(sid, now)
    \/ ops < MaxPrivOps /\ \E token \in tokens.set, tags \in { {}, {"a"} } :
                              Stream(token, tags)
    \/ ops < MaxPrivOps /\ SubPoll

SpecPriv == InitLoggedIn /\ [][NextPriv]_vars

\* the fetch ids a change tells of
FetchesOf(change) ==
    CASE change.kind = "AddFetch" -> DOMAIN change.fetches
      [] change.kind = "Add" -> DOMAIN change.points
      [] change.kind = "ExpireFetch" -> {change.fetch_id}
      [] OTHER -> {}

\* the fetch f belongs to a live session all of whose tags are private
AllPrivate(f) ==
    \E s \in DOMAIN sessions :
       /\ sessions[s].fetch_id = f
       /\ \A tag \in sessions[s].tags : tag.visibility = "Private"

\* C40 (as stated): nothing that passes the filter of a subscriber to every public tag
\* tells of a session all of whose tags are private
C40_AutoSubscriberSeesPublicOnly ==
    (sub.active /\ sub.auto_subscribe) =>
       \A i \in 1 .. Len(fed) :
          \A j \in 1 .. Len(fed[i].item.event.updates) :
             \A f \in FetchesOf(fed[i].item.event.updates[j].change) : ~AllPrivate(f)

\* a subscriber that named its tags is subscribed to exactly these tags at every update
\* that passes its filter (holds)
ExplicitTagsKept ==
    (sub.active /\ ~sub.auto_subscribe) =>
       /\ sub.subscribed_tags = {"a"}
       /\ \A i \in 1 .. Len(fed) : fed[i].filter_tags = {"a"}

====
